---- MODULE Spec2Model ----
(***************************************************************************)
(* Verification model of rust-udcn: the XDP forwarder (rust-udcn-ebpf),    *)
(* the userspace table wrappers (rust-udcn-xdp) and the QUIC face and      *)
(* transport (rust-udcn-quic).                                             *)
(*                                                                         *)
(* The eBPF crate ships two crate roots, main.rs and lib.rs, each with its *)
(* own try_ndn_xdp.  Both are modelled; the variable build says which one  *)
(* is loaded.  A packet is given by what the classifier hands to the       *)
(* forwarder: packet type, name_hash, name_len, nonce, ingress ifindex.    *)
(***************************************************************************)
EXTENDS Integers, Sequences, FiniteSets, TLC

(***************************************************************************)
(* Bounds of the model                                                     *)
(***************************************************************************)
NumCpus == 2
MaxPackets == 3
MaxEvictPackets == 4
MaxFrames == 2
MaxTime == 1
PitCap == 2
CsCap == 1
FibCap == 2
MaxConcPackets == 2
NumFaces == 2
NumCalls == 2
MaxStreams == 2
MaxCloseStreams == 1
MaxPumpCalls == 1
MaxClock == 1
EventCap == 1
MaxRawLen == 4
MaxFragLen == 3
UsizeBits == 4
PtrBits == 24

CPUs == 1..NumCpus

(***************************************************************************)
(* Program constants                                                       *)
(***************************************************************************)
MAX_FACE_CHECK == 8
MAX_PREFIX_LEN == 16
FNV_OFFSET_HI == 33052
FNV_OFFSET_LO == 40389
FNV_PRIME_HI == 256
FNV_PRIME_LO == 403
DEFAULT_LIFETIME_MS == 4000
LIB_CS_TTL_MS == 10000
MAIN_CS_TTL_MS == 60000
MAIN_CONTENT_SIZE == 1000
LIB_FACE_ID == 1

PACKETS_TOTAL == 0
INTERESTS_RECEIVED == 1
DATA_RECEIVED == 2
CS_HITS == 3
INTERESTS_DUPLICATE == 4
PIT_INSERTS == 5
FIB_HITS == 6
CS_INSERTS == 7
PIT_MATCHES == 8

MetricKeys == 0..8

XDP_ABORTED == 0
XDP_DROP == 1
XDP_PASS == 2

(***************************************************************************)
(* 32-bit FNV-1a.  A u32 is kept as <<high 16 bits, low 16 bits>>.         *)
(***************************************************************************)
RECURSIVE Xor(_, _)
Xor(a, b) ==
    IF a = 0 THEN b
    ELSE IF b = 0 THEN a
    ELSE (((a % 2) + (b % 2)) % 2) + (2 * Xor(a \div 2, b \div 2))

\* hash ^= b; hash = hash.wrapping_mul(prime)
FnvStep(h, b) ==
    LET lo == Xor(h[2], b)
        hi == h[1]
        p  == lo * FNV_PRIME_LO
    IN  << ((hi * FNV_PRIME_LO) + (lo * FNV_PRIME_HI) + (p \div 65536)) % 65536,
           p % 65536 >>

RECURSIVE FnvBytes(_, _)
FnvBytes(h, bytes) ==
    IF bytes = << >> THEN h
    ELSE FnvBytes(FnvStep(h, Head(bytes)), Tail(bytes))

Fnv1a(bytes) == FnvBytes(<<FNV_OFFSET_HI, FNV_OFFSET_LO>>, bytes)

(***************************************************************************)
(* Names.  A name is a sequence of components, a component a sequence of   *)
(* bytes.  Display prints "/" for the empty name and "/c1/c2..." otherwise,*)
(* a component as its bytes when all are printable and as "0x" followed by *)
(* two hex digits per byte when not.                                       *)
(***************************************************************************)
IsPrintable(b) == (b >= 32) /\ (b <= 126)

HexDigit(d) == IF d < 10 THEN 48 + d ELSE 87 + d

RECURSIVE HexBytes(_)
HexBytes(comp) ==
    IF comp = << >> THEN << >>
    ELSE <<HexDigit(Head(comp) \div 16), HexDigit(Head(comp) % 16)>> \o HexBytes(Tail(comp))

ComponentToString(comp) ==
    IF \A i \in DOMAIN comp : IsPrintable(comp[i])
    THEN comp
    ELSE <<48, 120>> \o HexBytes(comp)

RECURSIVE ComponentsToString(_)
ComponentsToString(name) ==
    IF name = << >> THEN << >>
    ELSE <<47>> \o ComponentToString(Head(name)) \o ComponentsToString(Tail(name))

NameToString(name) == IF name = << >> THEN <<47>> ELSE ComponentsToString(name)

\* Name::prefix
NamePrefix(name, len) == SubSeq(name, 1, IF len < Len(name) THEN len ELSE Len(name))

\* Fib::compute_prefix_hash: FNV-1a over the bytes of name.to_string()
compute_prefix_hash(name) == Fnv1a(NameToString(name))

(***************************************************************************)
(* Maps.  A map is a function whose domain is the set of keys present.     *)
(***************************************************************************)
EmptyMap == [k \in {} |-> 0]

MapPut(m, k, v) == [x \in (DOMAIN m) \cup {k} |-> IF x = k THEN v ELSE m[x]]

MapDel(m, k) == [x \in (DOMAIN m) \ {k} |-> m[x]]

\* an update of a map that has no limit
LruInsert_growing(m, cap, k, v) == {MapPut(m, k, v)}

\* BPF_MAP_TYPE_LRU_HASH update: a new key in a full map evicts an entry the
\* kernel picks (approximate LRU); the update itself succeeds.
LruInsert(m, cap, k, v) ==
    IF (k \in DOMAIN m) \/ (Cardinality(DOMAIN m) < cap)
    THEN {MapPut(m, k, v)}
    ELSE {MapPut(MapDel(m, victim), k, v) : victim \in DOMAIN m}

(***************************************************************************)
(* Inputs                                                                  *)
(***************************************************************************)
CompA == <<97>>
CompB == <<98>>
CompC == <<99>>
CompX == <<120>>

RouteNames == { << >> }

Hashes == { compute_prefix_hash(<< >>), compute_prefix_hash(<<CompA>>) }
Lens == {0, 1}
Nonces == {1, MAX_FACE_CHECK}
IfIndexes == {1}
RouteFaces == {7}
RouteCosts == {10}
DataLens == {20}

TickSteps == {1, MAIN_CS_TTL_MS + 1}

Absent == -1
NoReg == -2
None == -1

NoPkt == [type |-> "none"]
NoSnap == [taken |-> FALSE]

\* lifetime_ms is the InterestLifetime the frame carries
InterestPackets ==
    [type : {"Interest"}, hash : Hashes, len : Lens, nonce : Nonces, ifindex : IfIndexes,
     data_len : DataLens, lifetime_ms : {DEFAULT_LIFETIME_MS}]

DataPackets ==
    [type : {"Data"}, hash : Hashes, len : Lens, nonce : {0}, ifindex : IfIndexes,
     data_len : DataLens, lifetime_ms : {DEFAULT_LIFETIME_MS}]

\* Interests for one name that arrive on two interfaces with two lifetimes
IngressFaces == {1, 2}
InterestLifetimes == {1000, DEFAULT_LIFETIME_MS}

\* Interests and Data for two names, enough to fill the CS and the PIT
EvictPackets ==
    { p \in InterestPackets \cup DataPackets : p.len = 0 }

IngressPackets ==
    [type : {"Interest"}, hash : {compute_prefix_hash(<<CompA>>)}, len : {0}, nonce : Nonces,
     ifindex : IngressFaces, data_len : DataLens, lifetime_ms : InterestLifetimes]

Packets == InterestPackets \cup DataPackets

VARIABLES build, now, npk, pit, cs, fib, metrics, pc, pkt, reg, ret, why, hop, pre

fwdvars == <<build, now, npk, pit, cs, fib, metrics, pc, pkt, reg, ret, why, hop, pre>>

\* the last FIB lookup made and its answer
VARIABLES lk

\* the faces of the server's own map (NdnQuicServer.faces) and the last
\* TransportEvent the transport put on its event channel, from which
\* next_event takes them
VARIABLES server, tev

\* the remote address of each face's connection, from which its id is made
VARIABLES addr

\* the QUIC transport, its faces, the express_interest calls, the substream
\* tasks and the event pump
VARIABLES nfaces, registry, conn, closed, pending, events, clpc, clby, pendHolder,
          ncalls, cpc, call, chan, result, nstreams, stream,
          tpc, tq, tsnap, at_close, pe, clock, fm

facevars == <<nfaces, registry, conn, closed, pending, events, clpc, clby, pendHolder,
              ncalls, cpc, call, chan, result, nstreams, stream,
              tpc, tq, tsnap, at_close, pe, clock, fm, server, tev, addr>>

\* the last call made through the userspace table wrappers and its result
VARIABLES api

\* the packet or byte string handed to the codec or to the fragmentation, or
\* the frame handed to the classifier's parser, and what came of it
VARIABLES codec

extvars == <<api, codec, server, tev, addr>>

vars == <<fwdvars, lk, extvars, facevars>>

(***************************************************************************)
(* Table operations of the classifier                                      *)
(***************************************************************************)
PitKey(h, l, n) == [name_hash |-> h, name_len |-> l, nonce |-> n]
CsKey(h, l) == [name_hash |-> h, name_len |-> l]
FibKey(h, l) == [prefix_hash |-> h, prefix_len |-> l]

\* cs::lookup: the key is built with name_len 0
cs_lookup(table, name_hash) == CsKey(name_hash, 0) \in DOMAIN table

\* cs::is_entry_expired, with the value of utils::get_timestamp as t
is_entry_expired(entry, t) == t > entry.timestamp + entry.ttl_ms

\* pit::has_duplicate
has_duplicate(table, key) == key \in DOMAIN table

\* pit::find_matching_interests: the keys it probes, name_len 0 and
\* nonce 0 .. MAX_FACE_CHECK-1
ProbedPitKeys(name_hash) == { PitKey(name_hash, 0, n) : n \in 0..(MAX_FACE_CHECK - 1) }

find_matching_interests(table, name_hash) == (DOMAIN table) \cap ProbedPitKeys(name_hash)

\* fib::longest_prefix_match: probes (name_hash, prefix_len) for prefix_len
\* 16 down to 0 with the same hash and keeps the longest hit
longest_prefix_match(table, name_hash) ==
    LET hits == { l \in 0..MAX_PREFIX_LEN : FibKey(name_hash, l) \in DOMAIN table }
    IN  IF hits = {} THEN None
        ELSE LET best == CHOOSE l \in hits : \A m \in hits : m <= l
             IN  table[FibKey(name_hash, best)].face_id

\* fib::find_next_hop
find_next_hop(table, name_hash) == longest_prefix_match(table, name_hash)

(***************************************************************************)
(* The places where a counter of the METRICS map is bumped, per crate      *)
(* root: the key, the position that follows and the XDP action returned    *)
(* when the bump is the last statement before a return.                    *)
(***************************************************************************)
Site(k, n, r, w) == [key |-> k, next |-> n, ret |-> r, why |-> w]

MainSite(p, type) ==
    CASE p = "m_total"    -> Site(PACKETS_TOTAL, IF type = "Interest" THEN "m_irecv" ELSE "m_drecv", None, "none")
      [] p = "m_irecv"    -> Site(INTERESTS_RECEIVED, "m_cs_lookup", None, "none")
      [] p = "m_cshit"    -> Site(CS_HITS, "done", XDP_PASS, "cs_hit")
      [] p = "m_dup"      -> Site(INTERESTS_DUPLICATE, "done", XDP_DROP, "duplicate")
      [] p = "m_pitins"   -> Site(PIT_INSERTS, "m_fib", None, "none")
      [] p = "m_fibhit"   -> Site(FIB_HITS, "done", XDP_PASS, "forwarded")
      [] p = "m_drecv"    -> Site(DATA_RECEIVED, "m_match", None, "none")
      [] p = "m_pitmatch" -> Site(PIT_MATCHES, "m_cs_insert", None, "none")
      [] p = "m_csins"    -> Site(CS_INSERTS, "done", XDP_PASS, "satisfied")

MainSites == {"m_total", "m_irecv", "m_cshit", "m_dup", "m_pitins", "m_fibhit",
              "m_drecv", "m_pitmatch", "m_csins"}

LibSite(p, type) ==
    CASE p = "l_total"    -> Site(PACKETS_TOTAL, IF type = "Interest" THEN "l_irecv" ELSE "l_drecv", None, "none")
      [] p = "l_irecv"    -> Site(INTERESTS_RECEIVED, "l_cs_lookup", None, "none")
      [] p = "l_cshit"    -> Site(CS_HITS, "done", XDP_PASS, "cs_hit")
      [] p = "l_dup"      -> Site(INTERESTS_DUPLICATE, "done", XDP_DROP, "duplicate")
      [] p = "l_pitins"   -> Site(PIT_INSERTS, "l_fib", None, "none")
      [] p = "l_fibhit"   -> Site(FIB_HITS, "done", XDP_PASS, "forwarded")
      [] p = "l_drecv"    -> Site(DATA_RECEIVED, "l_match", None, "none")
      [] p = "l_csins"    -> Site(CS_INSERTS, "done", XDP_PASS, "satisfied")

LibSites == {"l_total", "l_irecv", "l_cshit", "l_dup", "l_pitins", "l_fibhit",
             "l_drecv", "l_csins"}

\* pit.rs and cs.rs bump a counter in place inside a table operation
BumpIfPresent(m, key, n) ==
    IF m[key] = Absent THEN m ELSE [m EXCEPT ![key] = m[key] + n]

Snapshot == [taken |-> TRUE, pit |-> pit, cs |-> cs, metrics |-> metrics, now |-> now]

\* The METRICS hash map is empty when the object is loaded; its entries exist
\* only if userspace wrote them before the program was attached.
FwdInit ==
    /\ build \in {"main", "lib"}
    /\ now = 0
    /\ npk = 0
    /\ pit = EmptyMap
    /\ cs = EmptyMap
    /\ fib = EmptyMap
    /\ metrics \in {[k \in MetricKeys |-> Absent], [k \in MetricKeys |-> 0]}
    /\ pc = [c \in CPUs |-> "idle"]
    /\ pkt = [c \in CPUs |-> NoPkt]
    /\ reg = [c \in CPUs |-> NoReg]
    /\ ret = [c \in CPUs |-> None]
    /\ why = [c \in CPUs |-> "none"]
    /\ hop = [c \in CPUs |-> None]
    /\ pre = [c \in CPUs |-> NoSnap]

Faces == 1..NumFaces
Calls == 1..NumCalls
Streams == 1..MaxStreams

FaceNames == { <<CompA>>, <<CompB>> }
Timeouts == {1}

NoLookup == [kind |-> "none"]
NoApi == [op |-> "none"]
NoCodec == [op |-> "none"]
NoEvent == [ev |-> "none", face_id |-> 0]
NoCall == [face |-> 0]
NoStream == [pc |-> "none"]
ChanNone == [st |-> "none"]
ChanEmpty == [st |-> "empty"]
ChanClosed == [st |-> "closed"]
DataMsg(id) == [st |-> "Data", id |-> id]
NetworkError(msg) == [st |-> "NetworkError", msg |-> msg]

\* NdnQuicTransport::new with Face::new_from_connection for a face made later:
\* no face, no call, nothing pending, all counters 0
FaceInit ==
    /\ nfaces = 0
    /\ registry = << >>
    /\ conn = [f \in Faces |-> "none"]
    /\ closed = [f \in Faces |-> FALSE]
    /\ pending = [f \in Faces |-> EmptyMap]
    /\ events = [f \in Faces |-> << >>]
    /\ clpc = [f \in Faces |-> "idle"]
    /\ clby = [f \in Faces |-> "none"]
    /\ pendHolder = [f \in Faces |-> "free"]
    /\ ncalls = 0
    /\ cpc = [k \in Calls |-> "idle"]
    /\ call = [k \in Calls |-> NoCall]
    /\ chan = [k \in Calls |-> ChanNone]
    /\ result = [k \in Calls |-> [st |-> "none"]]
    /\ nstreams = 0
    /\ stream = [s \in Streams |-> NoStream]
    /\ tpc = "idle"
    /\ tq = << >>
    /\ tsnap = {}
    /\ at_close = [k \in Calls |-> FALSE]
    /\ pe = [pc |-> "snap", q |-> << >>]
    /\ clock = 0
    /\ server = {}
    /\ tev = NoEvent
    /\ addr = [f \in Faces |-> 0]
    /\ fm = [interests_sent |-> 0, interests_satisfied |-> 0, interests_timed_out |-> 0,
             interests_received |-> 0, data_received |-> 0, data_sent |-> 0]

Init ==
    /\ FwdInit
    /\ lk = NoLookup
    /\ api = NoApi
    /\ codec = NoCodec
    /\ FaceInit

\* utils::get_timestamp advances, by one millisecond or past the longest TTL
\* a CS record is given
Tick ==
    /\ now < MaxTime
    /\ \E d \in TickSteps : now' = now + d
    /\ UNCHANGED <<lk, extvars, facevars, build, npk, pit, cs, fib, metrics, pc, pkt, reg, ret, why, hop, pre>>

\* A frame classified as NDN Interest or Data reaches try_ndn_xdp on a CPU
Arrive(c, p) ==
    /\ pc[c] = "idle"
    /\ npk' = npk + 1
    /\ pkt' = [pkt EXCEPT ![c] = p]
    /\ pre' = [pre EXCEPT ![c] = Snapshot]
    /\ pc' = [pc EXCEPT ![c] = IF build = "main" THEN "m_total" ELSE "l_total"]
    /\ UNCHANGED <<lk, extvars, facevars, build, now, pit, cs, fib, metrics, reg, ret, why, hop>>

\* the same, with packets handled one after the other
ArriveSeq(c, p) ==
    /\ npk < MaxPackets
    /\ \A d \in CPUs : pc[d] = "idle"
    /\ Arrive(c, p)

\* the same, for the longer runs that fill both tables
ArriveEvict(c, p) ==
    /\ npk < MaxEvictPackets
    /\ \A d \in CPUs : pc[d] = "idle"
    /\ Arrive(c, p)

\* the same, on any CPU at any time
ArriveConc(c, p) ==
    /\ npk < MaxConcPackets
    /\ Arrive(c, p)

\* the program returns its XDP action
Return(c) ==
    /\ pc[c] = "done"
    /\ pc' = [pc EXCEPT ![c] = "idle"]
    /\ pkt' = [pkt EXCEPT ![c] = NoPkt]
    /\ ret' = [ret EXCEPT ![c] = None]
    /\ why' = [why EXCEPT ![c] = "none"]
    /\ hop' = [hop EXCEPT ![c] = None]
    /\ pre' = [pre EXCEPT ![c] = NoSnap]
    /\ UNCHANGED <<lk, extvars, facevars, build, now, npk, pit, cs, fib, metrics, reg>>

\* main.rs: if let Some(count) = METRICS.get_ptr_mut(&k) { *count += 1 }
\* (a load of the value followed by a store of value + 1)
MainCounter(c) ==
    /\ build = "main"
    /\ pc[c] \in MainSites
    /\ LET site == MainSite(pc[c], pkt[c].type)
       IN  IF reg[c] = NoReg
           THEN IF metrics[site.key] = Absent
                THEN /\ pc' = [pc EXCEPT ![c] = site.next]
                     /\ ret' = [ret EXCEPT ![c] = site.ret]
                     /\ why' = [why EXCEPT ![c] = site.why]
                     /\ UNCHANGED <<reg, metrics>>
                ELSE /\ reg' = [reg EXCEPT ![c] = metrics[site.key]]
                     /\ UNCHANGED <<pc, ret, why, metrics>>
           ELSE /\ metrics' = [metrics EXCEPT ![site.key] = reg[c] + 1]
                /\ reg' = [reg EXCEPT ![c] = NoReg]
                /\ pc' = [pc EXCEPT ![c] = site.next]
                /\ ret' = [ret EXCEPT ![c] = site.ret]
                /\ why' = [why EXCEPT ![c] = site.why]
    /\ UNCHANGED <<lk, extvars, facevars, build, now, npk, pit, cs, fib, pkt, hop, pre>>

\* lib.rs: let counter = METRICS.get_ptr_mut(&k).ok_or(())?; *counter += 1
\* (a missing entry makes try_ndn_xdp return Err, hence XDP_ABORTED)
LibCounter(c) ==
    /\ build = "lib"
    /\ pc[c] \in LibSites
    /\ LET site == LibSite(pc[c], pkt[c].type)
       IN  IF reg[c] = NoReg
           THEN IF metrics[site.key] = Absent
                THEN /\ pc' = [pc EXCEPT ![c] = "done"]
                     /\ ret' = [ret EXCEPT ![c] = XDP_ABORTED]
                     /\ why' = [why EXCEPT ![c] = "aborted"]
                     /\ UNCHANGED <<reg, metrics>>
                ELSE /\ reg' = [reg EXCEPT ![c] = metrics[site.key]]
                     /\ UNCHANGED <<pc, ret, why, metrics>>
           ELSE /\ metrics' = [metrics EXCEPT ![site.key] = reg[c] + 1]
                /\ reg' = [reg EXCEPT ![c] = NoReg]
                /\ pc' = [pc EXCEPT ![c] = site.next]
                /\ ret' = [ret EXCEPT ![c] = site.ret]
                /\ why' = [why EXCEPT ![c] = site.why]
    /\ UNCHANGED <<lk, extvars, facevars, build, now, npk, pit, cs, fib, pkt, hop, pre>>

(***************************************************************************)
(* main.rs try_ndn_xdp                                                     *)
(***************************************************************************)
MainPitKey(p) == PitKey(p.hash, p.len, p.nonce)

\* match cs::lookup(name_hash)
MainCsLookup(c) ==
    /\ pc[c] = "m_cs_lookup"
    /\ pc' = [pc EXCEPT ![c] = IF cs_lookup(cs, pkt[c].hash) THEN "m_cshit" ELSE "m_pit_check"]
    /\ UNCHANGED <<lk, extvars, facevars, build, now, npk, pit, cs, fib, metrics, pkt, reg, ret, why, hop, pre>>

\* if pit::has_duplicate(&pit_key)
MainPitCheck(c) ==
    /\ pc[c] = "m_pit_check"
    /\ pc' = [pc EXCEPT ![c] = IF has_duplicate(pit, MainPitKey(pkt[c])) THEN "m_dup" ELSE "m_pit_insert"]
    /\ UNCHANGED <<lk, extvars, facevars, build, now, npk, pit, cs, fib, metrics, pkt, reg, ret, why, hop, pre>>

\* pit::add_entry(&pit_key, &pit_value)
MainPitInsert(c) ==
    /\ pc[c] = "m_pit_insert"
    /\ pit' \in LruInsert(pit, PitCap, MainPitKey(pkt[c]),
                          [arrival_time |-> now, face_id |-> pkt[c].ifindex])
    /\ pc' = [pc EXCEPT ![c] = "m_pitins"]
    /\ UNCHANGED <<lk, extvars, facevars, build, now, npk, cs, fib, metrics, pkt, reg, ret, why, hop, pre>>

\* match fib::find_next_hop(name_hash): both arms return XDP_PASS
MainFib(c) ==
    /\ pc[c] = "m_fib"
    /\ LET face == find_next_hop(fib, pkt[c].hash)
       IN  /\ hop' = [hop EXCEPT ![c] = face]
           /\ IF face # None
              THEN /\ pc' = [pc EXCEPT ![c] = "m_fibhit"]
                   /\ UNCHANGED <<ret, why>>
              ELSE /\ pc' = [pc EXCEPT ![c] = "done"]
                   /\ ret' = [ret EXCEPT ![c] = XDP_PASS]
                   /\ why' = [why EXCEPT ![c] = "no_route"]
    /\ UNCHANGED <<lk, extvars, facevars, build, now, npk, pit, cs, fib, metrics, pkt, reg, pre>>

\* if let Ok(true) = pit::has_matching_interest(name_hash): every probed
\* record found is removed and PIT_MATCHES bumped once per record
MainPitMatch(c) ==
    /\ pc[c] = "m_match"
    /\ LET found == find_matching_interests(pit, pkt[c].hash)
       IN  /\ pit' = [k \in (DOMAIN pit) \ found |-> pit[k]]
           /\ metrics' = BumpIfPresent(metrics, PIT_MATCHES, Cardinality(found))
           /\ IF found # {}
              THEN /\ pc' = [pc EXCEPT ![c] = "m_pitmatch"]
                   /\ UNCHANGED <<ret, why>>
              ELSE /\ pc' = [pc EXCEPT ![c] = "done"]
                   /\ ret' = [ret EXCEPT ![c] = XDP_DROP]
                   /\ why' = [why EXCEPT ![c] = "unsolicited"]
    /\ UNCHANGED <<lk, extvars, facevars, build, now, npk, cs, fib, pkt, reg, hop, pre>>

\* cs::insert(name_hash, content_size, ttl_ms), which bumps CS_INSERTS itself
MainCsInsert(c) ==
    /\ pc[c] = "m_cs_insert"
    /\ cs' \in LruInsert(cs, CsCap, CsKey(pkt[c].hash, 0),
                         [content_hash |-> 0, timestamp |-> now,
                          content_size |-> MAIN_CONTENT_SIZE, ttl_ms |-> MAIN_CS_TTL_MS])
    /\ metrics' = BumpIfPresent(metrics, CS_INSERTS, 1)
    /\ pc' = [pc EXCEPT ![c] = "m_csins"]
    /\ UNCHANGED <<lk, extvars, facevars, build, now, npk, pit, fib, pkt, reg, ret, why, hop, pre>>

(***************************************************************************)
(* lib.rs process_interest / process_data                                  *)
(***************************************************************************)
LibPitKey(p) == PitKey(p.hash, 0, p.nonce)

\* if let Some(_cs_value) = CS_TABLE.get(&cs_key)
LibCsLookup(c) ==
    /\ pc[c] = "l_cs_lookup"
    /\ pc' = [pc EXCEPT ![c] = IF CsKey(pkt[c].hash, 0) \in DOMAIN cs THEN "l_cshit" ELSE "l_pit_check"]
    /\ UNCHANGED <<lk, extvars, facevars, build, now, npk, pit, cs, fib, metrics, pkt, reg, ret, why, hop, pre>>

\* if PIT_TABLE.get(&pit_key).is_some()
LibPitCheck(c) ==
    /\ pc[c] = "l_pit_check"
    /\ pc' = [pc EXCEPT ![c] = IF LibPitKey(pkt[c]) \in DOMAIN pit THEN "l_dup" ELSE "l_pit_insert"]
    /\ UNCHANGED <<lk, extvars, facevars, build, now, npk, pit, cs, fib, metrics, pkt, reg, ret, why, hop, pre>>

\* PIT_TABLE.insert(&pit_key, &pit_value, 0)
LibPitInsert(c) ==
    /\ pc[c] = "l_pit_insert"
    /\ pit' \in LruInsert(pit, PitCap, LibPitKey(pkt[c]),
                          [face_id |-> LIB_FACE_ID, timestamp |-> now,
                           lifetime_ms |-> DEFAULT_LIFETIME_MS, name_component_count |-> 0])
    /\ pc' = [pc EXCEPT ![c] = "l_pitins"]
    /\ UNCHANGED <<lk, extvars, facevars, build, now, npk, cs, fib, metrics, pkt, reg, ret, why, hop, pre>>

\* if let Some(_fib_value) = FIB_TABLE.get(&fib_key), prefix_len 0
LibFib(c) ==
    /\ pc[c] = "l_fib"
    /\ LET key == FibKey(pkt[c].hash, 0)
           face == IF key \in DOMAIN fib THEN fib[key].face_id ELSE None
       IN  /\ hop' = [hop EXCEPT ![c] = face]
           /\ IF face # None
              THEN /\ pc' = [pc EXCEPT ![c] = "l_fibhit"]
                   /\ UNCHANGED <<ret, why>>
              ELSE /\ pc' = [pc EXCEPT ![c] = "done"]
                   /\ ret' = [ret EXCEPT ![c] = XDP_PASS]
                   /\ why' = [why EXCEPT ![c] = "no_route"]
    /\ UNCHANGED <<lk, extvars, facevars, build, now, npk, pit, cs, fib, metrics, pkt, reg, pre>>

\* let pit_matched = pit::find_matching_interests(name_hash)?
LibPitMatch(c) ==
    /\ pc[c] = "l_match"
    /\ LET found == find_matching_interests(pit, pkt[c].hash)
       IN  /\ pit' = [k \in (DOMAIN pit) \ found |-> pit[k]]
           /\ metrics' = BumpIfPresent(metrics, PIT_MATCHES, Cardinality(found))
           /\ IF found # {}
              THEN /\ pc' = [pc EXCEPT ![c] = "l_cs_insert"]
                   /\ UNCHANGED <<ret, why>>
              ELSE /\ pc' = [pc EXCEPT ![c] = "done"]
                   /\ ret' = [ret EXCEPT ![c] = XDP_DROP]
                   /\ why' = [why EXCEPT ![c] = "unsolicited"]
    /\ UNCHANGED <<lk, extvars, facevars, build, now, npk, cs, fib, pkt, reg, hop, pre>>

\* CS_TABLE.insert(&cs_key, &cs_value, 0)
LibCsInsert(c) ==
    /\ pc[c] = "l_cs_insert"
    /\ cs' \in LruInsert(cs, CsCap, CsKey(pkt[c].hash, 0),
                         [content_hash |-> 0, timestamp |-> now,
                          content_size |-> pkt[c].data_len, ttl_ms |-> LIB_CS_TTL_MS])
    /\ pc' = [pc EXCEPT ![c] = "l_csins"]
    /\ UNCHANGED <<lk, extvars, facevars, build, now, npk, pit, fib, metrics, pkt, reg, ret, why, hop, pre>>

(***************************************************************************)
(* Userspace FIB management (rust-udcn-xdp maps.rs)                        *)
(***************************************************************************)
RouteKey(name) == FibKey(compute_prefix_hash(name), Len(name))

\* Fib::add_route: map.insert on a BPF hash map, which refuses a new key
\* when the map is full
AddRoute(name, face, cost) ==
    /\ LET key == RouteKey(name)
       IN  /\ (key \in DOMAIN fib) \/ (Cardinality(DOMAIN fib) < FibCap)
           /\ fib' = MapPut(fib, key, [face_id |-> face, cost |-> cost])
    /\ UNCHANGED <<lk, extvars, facevars, build, now, npk, pit, cs, metrics, pc, pkt, reg, ret, why, hop, pre>>

\* Fib::remove_route: map.remove(&key)? fails on a key that is not there
RemoveRoute(name) ==
    /\ RouteKey(name) \in DOMAIN fib
    /\ fib' = MapDel(fib, RouteKey(name))
    /\ UNCHANGED <<lk, extvars, facevars, build, now, npk, pit, cs, metrics, pc, pkt, reg, ret, why, hop, pre>>

\* Fib::get_route: one probe at (hash of the name's string, its length)
get_route(table, name) ==
    IF RouteKey(name) \in DOMAIN table THEN table[RouteKey(name)].face_id ELSE None

(***************************************************************************)
(* Specifications of the forwarder                                         *)
(***************************************************************************)
CpuStep(c) ==
    \/ MainCounter(c)
    \/ MainCsLookup(c)
    \/ MainPitCheck(c)
    \/ MainPitInsert(c)
    \/ MainFib(c)
    \/ MainPitMatch(c)
    \/ MainCsInsert(c)
    \/ LibCounter(c)
    \/ LibCsLookup(c)
    \/ LibPitCheck(c)
    \/ LibPitInsert(c)
    \/ LibFib(c)
    \/ LibPitMatch(c)
    \/ LibCsInsert(c)
    \/ Return(c)

Manage ==
    \/ Tick
    \/ \E n \in RouteNames, f \in RouteFaces, k \in RouteCosts : AddRoute(n, f, k)
    \/ \E n \in RouteNames : RemoveRoute(n)

\* packets handled one after the other
Next ==
    \/ Manage
    \/ \E c \in CPUs : \E p \in Packets : ArriveSeq(c, p)
    \/ \E c \in CPUs : CpuStep(c)

Spec == Init /\ [][Next]_vars

\* packets handled on several CPUs at once
NextConc ==
    \/ \E n \in RouteNames, f \in RouteFaces, k \in RouteCosts : AddRoute(n, f, k)
    \/ \E n \in RouteNames : RemoveRoute(n)
    \/ \E c \in CPUs : \E p \in Packets : ArriveConc(c, p)
    \/ \E c \in CPUs : CpuStep(c)

SpecConc == Init /\ [][NextConc]_vars

\* packets handled one after the other, the Interests coming from two faces
NextIngress ==
    \/ Manage
    \/ \E c \in CPUs : \E p \in IngressPackets \cup DataPackets : ArriveSeq(c, p)
    \/ \E c \in CPUs : CpuStep(c)

SpecIngress == Init /\ [][NextIngress]_vars

\* packets handled one after the other until the tables are full
NextEvict ==
    \/ \E c \in CPUs : \E p \in EvictPackets : ArriveEvict(c, p)
    \/ \E c \in CPUs : CpuStep(c)

SpecEvict == Init /\ [][NextEvict]_vars

(***************************************************************************)
(* The userspace wrappers of the tables (rust-udcn-xdp maps.rs), with the  *)
(* result of each call kept in api                                         *)
(***************************************************************************)
ApiPitKeys == { PitKey(h, 0, n) : h \in Hashes, n \in Nonces }
ApiFaces == {1, 2}

\* PendingInterestTable::insert: map.insert(key, value, 0), flags 0 = BPF_ANY,
\* creates the record or replaces the one the key has
PitInsert(key, face) ==
    /\ \E after \in LruInsert(pit, PitCap, key,
                               [face_id |-> face, timestamp |-> now,
                                lifetime_ms |-> DEFAULT_LIFETIME_MS, name_component_count |-> 0]) :
          /\ pit' = after
          /\ api' = [op |-> "pit_insert", key |-> key, ok |-> TRUE, pit |-> pit, fib |-> fib]
    /\ UNCHANGED <<lk, codec, facevars, build, now, npk, cs, fib, metrics, pc, pkt, reg, ret, why, hop, pre>>

\* PendingInterestTable::remove: map.remove(key)? is an error on a key that
\* has no record
PitRemove(key) ==
    /\ pit' = MapDel(pit, key)
    /\ api' = [op |-> "pit_remove", key |-> key, ok |-> (key \in DOMAIN pit), pit |-> pit, fib |-> fib]
    /\ UNCHANGED <<lk, codec, facevars, build, now, npk, cs, fib, metrics, pc, pkt, reg, ret, why, hop, pre>>

ApiRouteNames == { << >>, <<CompA>>, <<CompB>>, <<CompA, CompB>> }

\* the FibKey that add_route and remove_route compute for each of these names
ApiRouteKey == [name \in ApiRouteNames |-> RouteKey(name)]

\* Fib::remove_route with its result: map.remove(&key)? returns the error of
\* the map when the key has no route
FibRemoveRoute(name) ==
    /\ fib' = MapDel(fib, ApiRouteKey[name])
    /\ api' = [op |-> "fib_remove_route", key |-> ApiRouteKey[name],
               ok |-> (ApiRouteKey[name] \in DOMAIN fib), pit |-> pit, fib |-> fib]
    /\ UNCHANGED <<lk, codec, facevars, build, now, npk, pit, cs, metrics, pc, pkt, reg, ret, why, hop, pre>>

\* an update of a map that evicts an entry when the map is full
HashInsert_evicting(m, cap, k, v) ==
    IF (k \in DOMAIN m) \/ (Cardinality(DOMAIN m) < cap)
    THEN [ok |-> TRUE, map |-> MapPut(m, k, v)]
    ELSE [ok |-> TRUE, map |-> MapPut(MapDel(m, CHOOSE victim \in DOMAIN m : TRUE), k, v)]

\* BPF_MAP_TYPE_HASH update with flags 0 (BPF_ANY): the key's entry is created
\* or replaced; a new key in a map that holds max_entries entries is refused
\* (E2BIG) and the map is left as it is
HashInsert(m, cap, k, v) ==
    IF (k \in DOMAIN m) \/ (Cardinality(DOMAIN m) < cap)
    THEN [ok |-> TRUE, map |-> MapPut(m, k, v)]
    ELSE [ok |-> FALSE, map |-> m]

\* Fib::add_route with its result: map.insert(&key, &value, 0)? returns the
\* error of the map
FibAddRoute(name, face, cost) ==
    /\ LET r == HashInsert(fib, FibCap, ApiRouteKey[name], [face_id |-> face, cost |-> cost])
       IN  /\ fib' = r.map
           /\ api' = [op |-> "fib_add_route", key |-> ApiRouteKey[name], ok |-> r.ok,
                      pit |-> pit, fib |-> fib]
    /\ UNCHANGED <<lk, codec, facevars, build, now, npk, pit, cs, metrics, pc, pkt, reg, ret, why, hop, pre>>

NextApi ==
    \/ Tick
    \/ \E n \in ApiRouteNames, f \in ApiFaces, k \in RouteCosts : FibAddRoute(n, f, k)
    \/ \E n \in ApiRouteNames : FibRemoveRoute(n)
    \/ \E key \in ApiPitKeys, face \in ApiFaces : PitInsert(key, face)
    \/ \E key \in ApiPitKeys : PitRemove(key)

\* the tables as the loader leaves them: the wrappers do not depend on which
\* program is attached
InitApi ==
    /\ Init
    /\ build = "main"
    /\ metrics = [k \in MetricKeys |-> Absent]

SpecApi == InitApi /\ [][NextApi]_vars

(***************************************************************************)
(* The TLV codec (rust-udcn-common tlv.rs, ndn.rs) and NdnPacket           *)
(* (rust-udcn-quic packet.rs).  A byte string is a sequence of 0..255, a   *)
(* u32 is a pair <<high 16 bits, low 16 bits>>, and a result is a record   *)
(* whose st is "Ok", "Err" (an Err value returned) or "Panic".             *)
(***************************************************************************)
TLV_INTEREST == 5
TLV_DATA == 6
TLV_NAME == 7
TLV_COMPONENT == 8
TLV_NONCE == 10
TLV_INTEREST_LIFETIME == 12
TLV_SELECTORS == 9
TLV_CONTENT == 21
TLV_HOP_LIMIT == 34
DEFAULT_INTEREST_LIFETIME == 4000
DEFAULT_DATA_TTL == 10000

Err == [st |-> "Err"]
Panic == [st |-> "Panic"]
NoneOpt == [some |-> FALSE]
Some(v) == [some |-> TRUE, v |-> v]

\* the value of a `let`: Only({ body : x \in {value} }) is body with x bound to
\* value, evaluated once
Only(S) == CHOOSE r \in S : TRUE

\* Buf::get_u8, which panics on an empty buffer
get_u8(buf) ==
    IF buf = << >> THEN Panic
    ELSE [st |-> "Ok", val |-> Head(buf), rest |-> Tail(buf)]

\* Buf::copy_to_bytes(len), which panics when len exceeds what remains
copy_to_bytes(buf, len) ==
    IF len > Len(buf) THEN Panic
    ELSE [st |-> "Ok", val |-> SubSeq(buf, 1, len), rest |-> SubSeq(buf, len + 1, Len(buf))]

\* BufMut::put_u16 / put_u32 and Buf::get_u16 / get_u32: big endian
put_u16(v) == <<v \div 256, v % 256>>
\* put_u32 writing the least significant byte first
put_u32_le(v) == <<v[2] % 256, v[2] \div 256, v[1] % 256, v[1] \div 256>>

put_u32(v) == put_u16(v[1]) \o put_u16(v[2])
get_u16(b) == b[1] * 256 + b[2]
get_u32(b) == <<get_u16(SubSeq(b, 1, 2)), get_u16(SubSeq(b, 3, 4))>>

\* tlv::encode_tlv_length
encode_tlv_length(length) ==
    IF length < 253 THEN <<length>>
    ELSE IF length <= 65535 THEN <<253>> \o put_u16(length)
    ELSE <<254>> \o put_u32(<<length \div 65536, length % 65536>>)

\* tlv::decode_tlv_type
decode_tlv_type(buf) == IF buf = << >> THEN Err ELSE get_u8(buf)

\* decode_tlv_length taking 253 for a one-byte length
decode_tlv_length_short(buf) ==
    IF buf = << >> THEN Err
    ELSE LET first == get_u8(buf)
         IN  IF first.val <= 253 THEN first
             ELSE IF first.val = 253
             THEN IF Len(first.rest) < 2 THEN Err
                  ELSE [st |-> "Ok", val |-> get_u16(first.rest),
                        rest |-> SubSeq(first.rest, 3, Len(first.rest))]
             ELSE IF first.val = 254
             THEN IF Len(first.rest) < 4 THEN Err
                  ELSE LET w == get_u32(first.rest)
                       IN  [st |-> "Ok",
                            val |-> IF w[1] < 32768 THEN w[1] * 65536 + w[2] ELSE 2147483647,
                            rest |-> SubSeq(first.rest, 5, Len(first.rest))]
             ELSE Err

\* tlv::decode_tlv_length; a 32-bit length of 2^31 or more is kept as 2^31 - 1,
\* which is still more than any buffer here holds
decode_tlv_length(buf) ==
    IF buf = << >> THEN Err
    ELSE LET first == get_u8(buf)
         IN  IF first.val <= 252 THEN first
             ELSE IF first.val = 253
             THEN IF Len(first.rest) < 2 THEN Err
                  ELSE [st |-> "Ok", val |-> get_u16(first.rest),
                        rest |-> SubSeq(first.rest, 3, Len(first.rest))]
             ELSE IF first.val = 254
             THEN IF Len(first.rest) < 4 THEN Err
                  ELSE LET w == get_u32(first.rest)
                       IN  [st |-> "Ok",
                            val |-> IF w[1] < 32768 THEN w[1] * 65536 + w[2] ELSE 2147483647,
                            rest |-> SubSeq(first.rest, 5, Len(first.rest))]
             ELSE Err

\* TlvElement::encode
TlvElement_encode(tlv_type, value) == <<tlv_type>> \o encode_tlv_length(Len(value)) \o value

\* a TlvElement::decode that takes the value without looking at what remains
TlvElement_decode_unchecked(buf) ==
    IF Len(buf) < 2 THEN Err
    ELSE Only({
           IF t.st # "Ok" THEN t
           ELSE Only({
                  IF l.st # "Ok" THEN l
                  ELSE Only({
                         IF v.st # "Ok" THEN v
                         ELSE [st |-> "Ok", tlv_type |-> t.val, value |-> v.val, rest |-> v.rest]
                         : v \in {copy_to_bytes(l.rest, l.val)} })
                  : l \in {decode_tlv_length(t.rest)} })
           : t \in {decode_tlv_type(buf)} })

\* TlvElement::decode
TlvElement_decode(buf) ==
    IF Len(buf) < 2 THEN Err
    ELSE Only({
           IF t.st # "Ok" THEN t
           ELSE Only({
                  IF l.st # "Ok" THEN l
                  ELSE IF Len(l.rest) < l.val THEN Err
                  ELSE Only({
                         IF v.st # "Ok" THEN v
                         ELSE [st |-> "Ok", tlv_type |-> t.val, value |-> v.val, rest |-> v.rest]
                         : v \in {copy_to_bytes(l.rest, l.val)} })
                  : l \in {decode_tlv_length(t.rest)} })
           : t \in {decode_tlv_type(buf)} })

RECURSIVE ComponentsValue(_)
\* Name::to_tlv: the component TLVs one after the other
ComponentsValue(components) ==
    IF components = << >> THEN << >>
    ELSE TlvElement_encode(TLV_COMPONENT, Head(components)) \o ComponentsValue(Tail(components))

\* self.name.to_tlv()?.encode(&mut inner)
Name_encode(name) == TlvElement_encode(TLV_NAME, ComponentsValue(name))

RECURSIVE NameComponents(_, _)
\* Name::from_tlv, its loop with NameComponent::from_tlv
NameComponents(buf, components) ==
    IF buf = << >> THEN [st |-> "Ok", val |-> components]
    ELSE Only({
           IF e.st # "Ok" THEN e
           ELSE IF e.tlv_type # TLV_COMPONENT THEN Err
           ELSE NameComponents(e.rest, Append(components, e.value))
           : e \in {TlvElement_decode(buf)} })

\* Name::from_tlv
Name_from_tlv(e) == IF e.tlv_type # TLV_NAME THEN Err ELSE NameComponents(e.value, << >>)

\* Interest::encode
Interest_encode(p) ==
    TlvElement_encode(TLV_INTEREST,
        Name_encode(p.name)
        \o TlvElement_encode(TLV_SELECTORS, <<IF p.can_be_prefix THEN 1 ELSE 0,
                                              IF p.must_be_fresh THEN 1 ELSE 0>>)
        \o TlvElement_encode(TLV_NONCE, put_u32(p.nonce))
        \o TlvElement_encode(TLV_INTEREST_LIFETIME, put_u32(p.lifetime_ms))
        \o (IF p.hop_limit.some THEN TlvElement_encode(TLV_HOP_LIMIT, <<p.hop_limit.v>>)
            ELSE << >>))

\* the lifetime value of 1 to 4 bytes, right-aligned in a [0u8; 4]
LifetimeOf(value) == get_u32(SubSeq(<<0, 0, 0>>, 1, 4 - Len(value)) \o value)

RECURSIVE InterestFields(_, _)
\* Interest::decode, the loop over the elements of the outer value
InterestFields(inner, f) ==
    IF inner = << >> THEN [st |-> "Ok", val |-> f]
    ELSE Only({
           IF e.st # "Ok" THEN e
           ELSE IF e.tlv_type = TLV_NAME
           THEN Only({ IF n.st # "Ok" THEN n
                       ELSE InterestFields(e.rest, [f EXCEPT !.name = Some(n.val)])
                       : n \in {Name_from_tlv(e)} })
           ELSE IF e.tlv_type = TLV_NONCE
           THEN InterestFields(e.rest, IF Len(e.value) = 4
                                       THEN [f EXCEPT !.nonce = Some(get_u32(e.value))]
                                       ELSE f)
           ELSE IF e.tlv_type = TLV_INTEREST_LIFETIME
           THEN InterestFields(e.rest, IF Len(e.value) >= 1 /\ Len(e.value) <= 4
                                       THEN [f EXCEPT !.lifetime_ms = Some(LifetimeOf(e.value))]
                                       ELSE f)
           ELSE IF e.tlv_type = TLV_SELECTORS
           THEN InterestFields(e.rest, IF Len(e.value) >= 2
                                       THEN [f EXCEPT !.can_be_prefix = (e.value[1] # 0),
                                                      !.must_be_fresh = (e.value[2] # 0)]
                                       ELSE f)
           ELSE IF e.tlv_type = TLV_HOP_LIMIT
           THEN InterestFields(e.rest, IF e.value # << >>
                                       THEN [f EXCEPT !.hop_limit = Some(e.value[1])]
                                       ELSE f)
           ELSE InterestFields(e.rest, f)
           : e \in {TlvElement_decode(inner)} })

\* Interest::decode
Interest_decode(bytes) ==
    Only({
      IF outer.st # "Ok" THEN outer
      ELSE IF outer.tlv_type # TLV_INTEREST THEN Err
      ELSE Only({
             IF r.st # "Ok" THEN r
             ELSE IF ~r.val.name.some THEN Err
             ELSE [st |-> "Ok",
                   val |-> [kind |-> "Interest",
                            name |-> r.val.name.v,
                            nonce |-> IF r.val.nonce.some THEN r.val.nonce.v ELSE <<0, 0>>,
                            lifetime_ms |-> IF r.val.lifetime_ms.some THEN r.val.lifetime_ms.v
                                            ELSE <<0, DEFAULT_INTEREST_LIFETIME>>,
                            hop_limit |-> r.val.hop_limit,
                            can_be_prefix |-> r.val.can_be_prefix,
                            must_be_fresh |-> r.val.must_be_fresh]]
             : r \in {InterestFields(outer.value,
                          [name |-> NoneOpt, nonce |-> NoneOpt, lifetime_ms |-> NoneOpt,
                           hop_limit |-> NoneOpt, can_be_prefix |-> FALSE,
                           must_be_fresh |-> FALSE])} })
      : outer \in {TlvElement_decode(bytes)} })

\* Data::encode
Data_encode(p) ==
    TlvElement_encode(TLV_DATA, Name_encode(p.name) \o TlvElement_encode(TLV_CONTENT, p.content))

RECURSIVE DataFields(_, _)
\* Data::decode, the loop over the elements of the outer value
DataFields(inner, f) ==
    IF inner = << >> THEN [st |-> "Ok", val |-> f]
    ELSE Only({
           IF e.st # "Ok" THEN e
           ELSE IF e.tlv_type = TLV_NAME
           THEN Only({ IF n.st # "Ok" THEN n
                       ELSE DataFields(e.rest, [f EXCEPT !.name = Some(n.val)])
                       : n \in {Name_from_tlv(e)} })
           ELSE IF e.tlv_type = TLV_CONTENT
           THEN DataFields(e.rest, [f EXCEPT !.content = e.value])
           ELSE DataFields(e.rest, f)
           : e \in {TlvElement_decode(inner)} })

\* Data::decode
Data_decode(bytes) ==
    Only({
      IF outer.st # "Ok" THEN outer
      ELSE IF outer.tlv_type # TLV_DATA THEN Err
      ELSE Only({
             IF r.st # "Ok" THEN r
             ELSE IF ~r.val.name.some THEN Err
             ELSE [st |-> "Ok",
                   val |-> [kind |-> "Data", name |-> r.val.name.v,
                            content |-> r.val.content,
                            ttl_ms |-> <<0, DEFAULT_DATA_TTL>>]]
             : r \in {DataFields(outer.value, [name |-> NoneOpt, content |-> << >>])} })
      : outer \in {TlvElement_decode(bytes)} })

\* NdnPacket::from_bytes
from_bytes(bytes) ==
    IF bytes = << >> THEN Err
    ELSE IF bytes[1] = TLV_INTEREST THEN Interest_decode(bytes)
    ELSE IF bytes[1] = TLV_DATA THEN Data_decode(bytes)
    ELSE Err

\* NdnPacket::to_bytes
to_bytes(p) == IF p.kind = "Interest" THEN Interest_encode(p) ELSE Data_encode(p)

(***************************************************************************)
(* Fragmentation (rust-udcn-quic fragmentation.rs).  usize is UsizeBits    *)
(* wide; an overflowing addition panics in a build with overflow checks    *)
(* and wraps in one without.                                               *)
(***************************************************************************)
UsizeMod == 2 ^ UsizeBits

RECURSIVE FragmentsFrom(_, _, _)
\* fragment_packet, its loop from offset on; offset + fragment_size does not
\* overflow: past the first fragment fragment_size is less than packet.len()
FragmentsFrom(packet, fragment_size, offset) ==
    IF offset < Len(packet)
    THEN LET end == IF offset + fragment_size < Len(packet) THEN offset + fragment_size
                    ELSE Len(packet)
         IN  <<SubSeq(packet, offset + 1, end)>> \o FragmentsFrom(packet, fragment_size, end)
    ELSE << >>

\* fragment_packet
fragment_packet(packet, fragment_size) == FragmentsFrom(packet, fragment_size, 0)

RECURSIVE Concat(_)
\* buffer.extend_from_slice(&fragment) for the fragments in order
Concat(fragments) ==
    IF fragments = << >> THEN << >> ELSE Head(fragments) \o Concat(Tail(fragments))

\* assemble_fragments
assemble_fragments(fragments) ==
    IF Len(Concat(fragments)) = 0 THEN Err ELSE [st |-> "Ok", val |-> Concat(fragments)]

\* calculate_fragment_count: (packet_size + fragment_size - 1) / fragment_size
calculate_fragment_count(packet_size, fragment_size, overflow_checks) ==
    IF packet_size + fragment_size >= UsizeMod
    THEN IF overflow_checks THEN Panic
         ELSE [st |-> "Ok",
               val |-> ((((packet_size + fragment_size) % UsizeMod) - 1) % UsizeMod)
                       \div fragment_size]
    ELSE [st |-> "Ok", val |-> (packet_size + fragment_size - 1) \div fragment_size]

(***************************************************************************)
(* Packets and byte strings handed to the codec and to the fragmentation   *)
(***************************************************************************)
CodecNames == { << >>, <<CompA>>, <<CompA, CompB>>, << << >> >> }

LongContent == [i \in 1..253 |-> 255]

Interests ==
    [kind : {"Interest"}, name : CodecNames, nonce : {<<0, 0>>, <<0, 42>>, <<65535, 65535>>},
     lifetime_ms : {<<0, DEFAULT_INTEREST_LIFETIME>>, <<0, 0>>, <<1, 2>>},
     hop_limit : {NoneOpt, Some(0), Some(32)},
     can_be_prefix : BOOLEAN, must_be_fresh : BOOLEAN]

Datas ==
    [kind : {"Data"}, name : CodecNames, content : {<< >>, <<72, 105>>, LongContent},
     ttl_ms : {<<0, DEFAULT_DATA_TTL>>, <<0, 0>>, <<0, 60000>>}]

RawBytes == {0, 2, TLV_INTEREST, TLV_DATA, TLV_NAME, TLV_COMPONENT, TLV_CONTENT, 253, 254, 255}

\* every byte string of up to MaxRawLen bytes, the encodings of two packets
\* cut short at every length, and a Data and an Interest with an element of
\* an unknown type
RawInputs ==
    UNION { [1..n -> RawBytes] : n \in 0..MaxRawLen }
    \cup UNION { { SubSeq(b, 1, n) : n \in 0..(Len(b) - 1) } :
             b \in { Interest_encode([kind |-> "Interest", name |-> <<CompA>>, nonce |-> <<0, 42>>,
                                      lifetime_ms |-> <<0, DEFAULT_INTEREST_LIFETIME>>,
                                      hop_limit |-> Some(32), can_be_prefix |-> FALSE,
                                      must_be_fresh |-> TRUE]),
                     Data_encode([kind |-> "Data", name |-> <<CompA>>, content |-> <<72, 105>>,
                                  ttl_ms |-> <<0, DEFAULT_DATA_TTL>>]) } }
    \cup { <<TLV_DATA, 7, TLV_NAME, 0, TLV_CONTENT, 1, 72, 99, 0>>,
           <<TLV_INTEREST, 4, TLV_NAME, 0, 99, 0>> }

Decoders == {"Interest::decode", "Data::decode", "NdnPacket::from_bytes"}

Decode(fn, bytes) ==
    IF fn = "Interest::decode" THEN Interest_decode(bytes)
    ELSE IF fn = "Data::decode" THEN Data_decode(bytes)
    ELSE from_bytes(bytes)

FragPackets == UNION { [1..n -> {1, 2}] : n \in 1..MaxFragLen }

\* a packet is encoded, to be decoded by its own decoder or by from_bytes
Encode(p, fn) ==
    /\ codec = NoCodec
    /\ fn \in {IF p.kind = "Interest" THEN "Interest::decode" ELSE "Data::decode",
               "NdnPacket::from_bytes"}
    /\ codec' = [op |-> "encoded", src |-> "packet", fn |-> fn, p |-> p, bytes |-> to_bytes(p),
                 q |-> [st |-> "none"], again |-> << >>]
    /\ UNCHANGED <<fwdvars, lk, api, facevars>>

\* the bytes just encoded are decoded
DecodeEncoded ==
    /\ codec.op = "encoded"
    /\ codec' = [codec EXCEPT !.op = "decoded", !.q = Decode(codec.fn, codec.bytes)]
    /\ UNCHANGED <<fwdvars, lk, api, facevars>>

\* a byte string from the wire is decoded
DecodeRaw(fn, bytes) ==
    /\ codec = NoCodec
    /\ codec' = [op |-> "decoded", src |-> "wire", fn |-> fn, p |-> [kind |-> "none"],
                 bytes |-> bytes, q |-> Decode(fn, bytes), again |-> << >>]
    /\ UNCHANGED <<fwdvars, lk, api, facevars>>

\* the packet just decoded is encoded again
EncodeDecoded ==
    /\ codec.op = "decoded"
    /\ codec.q.st = "Ok"
    /\ codec' = [codec EXCEPT !.op = "re_encoded", !.again = to_bytes(codec.q.val)]
    /\ UNCHANGED <<fwdvars, lk, api, facevars>>

\* send_packet: fragment_packet(&bytes, fragment_size), with the count that
\* calculate_fragment_count gives for the same sizes
Fragment(packet, fragment_size, overflow_checks) ==
    /\ codec = NoCodec
    /\ codec' = [op |-> "fragmented", packet |-> packet, fragment_size |-> fragment_size,
                 fragments |-> fragment_packet(packet, fragment_size),
                 count |-> calculate_fragment_count(Len(packet), fragment_size, overflow_checks),
                 out |-> [st |-> "none"]]
    /\ UNCHANGED <<fwdvars, lk, api, facevars>>

\* process_stream: assemble_fragments(fragments)
Assemble ==
    /\ codec.op = "fragmented"
    /\ codec' = [codec EXCEPT !.op = "assembled", !.out = assemble_fragments(codec.fragments)]
    /\ UNCHANGED <<fwdvars, lk, api, facevars>>

\* parser::extract_name_hash: None for a payload of fewer than 10 bytes, else
\* the u32 read through a pointer at payload bytes 4..7, in the byte order of
\* the target the classifier is built for
extract_name_hash(data, endian) ==
    IF Len(data) < 10 THEN NoneOpt
    ELSE IF endian = "little"
    THEN Some(<<data[8] * 256 + data[7], data[6] * 256 + data[5]>>)
    ELSE Some(<<data[5] * 256 + data[6], data[7] * 256 + data[8]>>)

\* ndn::compute_name_hash (rust-udcn-ebpf): FNV-1a over the first len bytes of
\* data; no function of the classifier calls it
compute_name_hash(data, len) ==
    Fnv1a(SubSeq(data, 1, IF len < Len(data) THEN len ELSE Len(data)))

Endians == {"little", "big"}

\* the hash of a packet's name as each side computes it: userspace from the
\* Name (Fib::compute_prefix_hash), the classifier from the packet's bytes
\* (lib.rs:92, 184)
HashName(p, endian) ==
    /\ codec = NoCodec
    /\ codec' = [op |-> "hashed", name |-> p.name, bytes |-> to_bytes(p),
                 user |-> compute_prefix_hash(p.name),
                 kernel |-> extract_name_hash(to_bytes(p), endian),
                 flat |-> compute_name_hash(Concat(p.name), Len(Concat(p.name)))]
    /\ UNCHANGED <<fwdvars, lk, api, facevars>>

\* Name::is_prefix_of: components.iter().zip(other.components.iter()).all(a == b);
\* zip stops at the end of the shorter of the two
is_prefix_of(self, other) ==
    \A i \in 1..(IF Len(self) < Len(other) THEN Len(self) ELSE Len(other)) : self[i] = other[i]

PrefixNames == { << >>, <<CompA>>, <<CompA, CompB>>, <<CompA, CompB, CompC>>, <<CompA, CompB, CompX>>,
                 <<CompB>> }

\* a.is_prefix_of(&b)
IsPrefixOf(a, b) ==
    /\ codec = NoCodec
    /\ codec' = [op |-> "is_prefix_of", a |-> a, b |-> b, out |-> is_prefix_of(a, b)]
    /\ UNCHANGED <<fwdvars, lk, api, facevars>>

\* sizes on both sides of each change of form, and the largest the model's
\* integers hold
LengthSizes == {0, 1, 100, 252, 253, 254, 255, 256, 1000, 65535, 65536, 65537, 100000, 2147483647}

LengthTails == { << >>, <<7>>, <<255, 255, 255, 255>> }

\* encode_tlv_length(size, &mut buf), more bytes put after it, and
\* decode_tlv_length of the buffer
LengthRoundTrip(size, tail) ==
    /\ codec = NoCodec
    /\ codec' = [op |-> "length", size |-> size, tail |-> tail,
                 bytes |-> encode_tlv_length(size) \o tail,
                 out |-> decode_tlv_length(encode_tlv_length(size) \o tail)]
    /\ UNCHANGED <<fwdvars, lk, api, facevars>>

\* decode_tlv_length of bytes that start with the marker 255
LengthReserved(tail) ==
    /\ codec = NoCodec
    /\ codec' = [op |-> "length", size |-> -1, tail |-> tail, bytes |-> <<255>> \o tail,
                 out |-> decode_tlv_length(<<255>> \o tail)]
    /\ UNCHANGED <<fwdvars, lk, api, facevars>>

\* ndn.rs: pub const MAX_NAME_COMPONENT_LENGTH / MAX_NAME_COMPONENTS
MAX_NAME_COMPONENT_LENGTH == 255
MAX_NAME_COMPONENTS == 16

\* s.split('/').filter(|comp| !comp.is_empty()).collect(): the runs of bytes
\* other than '/', in their order
SplitParts(s) ==
    LET starts == { i \in 1..Len(s) : s[i] # 47 /\ (i = 1 \/ s[i - 1] = 47) }
        ends == { j \in 1..Len(s) : s[j] # 47 /\ (j = Len(s) \/ s[j + 1] = 47) }
        Nth(S, k) == CHOOSE i \in S : Cardinality({ j \in S : j < i }) = k - 1
    IN  [k \in 1..Cardinality(starts) |-> SubSeq(s, Nth(starts, k), Nth(ends, k))]

\* Name::from_string
Name_from_string(s) ==
    Only({ IF Len(parts) > MAX_NAME_COMPONENTS THEN Err
           ELSE IF \E i \in 1..Len(parts) : Len(parts[i]) > MAX_NAME_COMPONENT_LENGTH THEN Err
           ELSE [st |-> "Ok", val |-> parts]
           : parts \in {SplitParts(s)} })

\* Name::push
Name_push(name, component) == Append(name, component)

\* names and components at and just beyond the two limits
FullName == [i \in 1..MAX_NAME_COMPONENTS |-> CompA]
FullComponent == [i \in 1..MAX_NAME_COMPONENT_LENGTH |-> 97]
LimitNames ==
    { <<CompA>>, <<CompA, CompB>>, FullName, Append(FullName, CompB),
      <<FullComponent>>, <<Append(FullComponent, 98)>> }
LimitStrings ==
    { NameToString(n) : n \in { <<CompA>>, <<CompA, CompB>>, FullName, Append(FullName, CompB) } }
        \cup { <<47>> \o FullComponent, <<47>> \o Append(FullComponent, 98),
               <<47, 47, 97, 47>>, << >> }
PushComponents == { CompB, FullComponent, Append(FullComponent, 98) }

\* Name::from_string(s)
NameFromString(s) ==
    /\ codec = NoCodec
    /\ codec' = [op |-> "name", via |-> "from_string", input |-> s, out |-> Name_from_string(s)]
    /\ UNCHANGED <<fwdvars, lk, api, facevars>>

\* name.push(component) on a name that from_string has returned
NamePush(component) ==
    /\ codec.op = "name"
    /\ codec.via = "from_string"
    /\ codec.out.st = "Ok"
    /\ codec' = [codec EXCEPT !.via = "push",
                              !.out = [st |-> "Ok", val |-> Name_push(codec.out.val, component)]]
    /\ UNCHANGED <<fwdvars, lk, api, facevars>>

\* Name::from_tlv on the Name element of a packet on the wire, as
\* Interest::from_tlv and Data::from_tlv call it
NameFromTlv(bytes) ==
    /\ codec = NoCodec
    /\ codec' = [op |-> "name", via |-> "from_tlv", input |-> bytes,
                 out |-> Only({ IF e.st # "Ok" THEN Err ELSE Name_from_tlv(e)
                                : e \in {TlvElement_decode(bytes)} })]
    /\ UNCHANGED <<fwdvars, lk, api, facevars>>

\* a new input is taken only when none is in hand (the test is repeated here
\* so that the inputs are not enumerated in the other states)
NextCodec ==
    \/ codec = NoCodec /\ \E p \in Interests \cup Datas, fn \in Decoders : Encode(p, fn)
    \/ DecodeEncoded
    \/ codec = NoCodec /\ \E fn \in Decoders, bytes \in RawInputs : DecodeRaw(fn, bytes)
    \/ EncodeDecoded
    \/ codec = NoCodec /\ \E packet \in FragPackets, n \in 1..(UsizeMod - 1), c \in BOOLEAN :
                              Fragment(packet, n, c)
    \/ Assemble
    \/ codec = NoCodec /\ \E p \in Interests \cup Datas, e \in Endians : HashName(p, e)
    \/ codec = NoCodec /\ \E a \in PrefixNames, b \in PrefixNames : IsPrefixOf(a, b)
    \/ codec = NoCodec /\ \E size \in LengthSizes, tail \in LengthTails : LengthRoundTrip(size, tail)
    \/ codec = NoCodec /\ \E tail \in LengthTails \cup {<<0, 0, 0, 0, 0, 0, 0, 1>>} : LengthReserved(tail)
    \/ codec = NoCodec /\ \E s \in LimitStrings : NameFromString(s)
    \/ \E component \in PushComponents : NamePush(component)
    \/ codec = NoCodec /\ \E n \in LimitNames : NameFromTlv(Name_encode(n))

\* the codec is the same in every build of the classifier
InitCodec ==
    /\ Init
    /\ build = "main"
    /\ metrics = [k \in MetricKeys |-> Absent]

SpecCodec == InitCodec /\ [][NextCodec]_vars

(***************************************************************************)
(* Frames: the classification of a frame (main.rs try_ndn_xdp, lib.rs      *)
(* try_ndn_xdp with parser.rs Packet::parse) and the reads of the payload  *)
(***************************************************************************)
\* parser.rs: the protocol numbers, the sizes of the packed header structs
\* and the NDN port
IPPROTO_UDP == 17
ETH_P_IPV6 == 34525
ETH_HDR_SIZE == 14
IPV6_HDR_SIZE == 40
UDP_HDR_SIZE == 8
NDN_PORT == 6363

\* usize and the addresses are 64 bits wide; here they are PtrBits wide, which
\* is more than the 16 bits of the UDP length field
PtrMod == 2 ^ PtrBits

\* ctx.data() of a frame: frames lie in kernel memory, at the top of the
\* address range
KernelBase == PtrMod - 4096

\* ctx.data_end()
data_end(fr) == fr.data + fr.frame_len

\* utils::ptr_at::<T>(ctx, offset), size being size_of::<T>()
ptr_at(fr, offset, size) ==
    IF fr.data + offset + size > data_end(fr) THEN Err
    ELSE [st |-> "Ok", val |-> fr.data + offset]

\* utils::byte_ptr_at(ctx, offset)
byte_ptr_at(fr, offset) ==
    IF fr.data + offset >= data_end(fr) THEN Err
    ELSE [st |-> "Ok", val |-> fr.data + offset]

\* an addition or subtraction of usize values: out of range it wraps, or
\* panics if the object was built with overflow checks
Usize(v, checks) ==
    IF v \in 0..(PtrMod - 1) THEN [st |-> "Ok", val |-> v]
    ELSE IF checks THEN Panic
    ELSE [st |-> "Ok", val |-> v % PtrMod]

\* Packet::parse
Packet_parse(fr, checks) ==
    IF ptr_at(fr, 0, ETH_HDR_SIZE).st # "Ok" THEN Err
    ELSE IF fr.eth_type # ETH_P_IPV6 THEN Err
    ELSE IF ptr_at(fr, ETH_HDR_SIZE, IPV6_HDR_SIZE).st # "Ok" THEN Err
    ELSE IF fr.next_hdr # IPPROTO_UDP THEN Err
    ELSE IF ptr_at(fr, ETH_HDR_SIZE + IPV6_HDR_SIZE, UDP_HDR_SIZE).st # "Ok" THEN Err
    ELSE IF fr.dst_port # NDN_PORT THEN Err
    ELSE LET data_offset == ETH_HDR_SIZE + IPV6_HDR_SIZE + UDP_HDR_SIZE
             data_len == Usize(fr.udp_length - UDP_HDR_SIZE, checks)
             packet_end == Usize(fr.data + data_end(fr), checks)
         IN  IF data_len.st # "Ok" THEN data_len
             ELSE IF packet_end.st # "Ok" THEN packet_end
             ELSE Only({ IF sum.st # "Ok" THEN sum
                         ELSE IF sum.val > packet_end.val THEN Err
                         ELSE [st |-> "Ok", data_offset |-> data_offset,
                               data_len |-> data_len.val]
                         : sum \in {Usize(data_offset + data_len.val, checks)} })

\* parser::parse_ndn_packet: the packet type and the offsets of the frame it
\* reads
parse_ndn_packet(fr, packet) ==
    IF byte_ptr_at(fr, packet.data_offset).st # "Ok" THEN [st |-> "Err", reads |-> {}]
    ELSE IF packet.data_len < 1 THEN [st |-> "Err", reads |-> {}]
    ELSE IF fr.tlv_type = TLV_INTEREST
         THEN [st |-> "Ok", val |-> "Interest", reads |-> {packet.data_offset}]
    ELSE IF fr.tlv_type = TLV_DATA
         THEN [st |-> "Ok", val |-> "Data", reads |-> {packet.data_offset}]
    ELSE [st |-> "Err", reads |-> {packet.data_offset}]

\* parser::extract_name_hash: the offsets of the frame it reads (a u32 at
\* data_ptr.add(2).add(2)); none when it returns None
extract_name_hash_reads(fr, packet) ==
    IF byte_ptr_at(fr, packet.data_offset).st # "Ok" THEN {}
    ELSE IF packet.data_len < 10 THEN {}
    ELSE (packet.data_offset + 4)..(packet.data_offset + 7)

\* parser::extract_nonce: the offsets of the frame it reads (a u32 at
\* data_ptr.add(10)); none when it returns None
extract_nonce_reads(fr, packet) ==
    IF byte_ptr_at(fr, packet.data_offset).st # "Ok" THEN {}
    ELSE IF packet.data_len < 15 THEN {}
    ELSE (packet.data_offset + 10)..(packet.data_offset + 13)

\* what lib.rs reads of a frame: the type in try_ndn_xdp, the name hash in
\* process_interest and process_data, the nonce in process_interest
FrameReads(fr, packet) ==
    Only({ IF t.st # "Ok" THEN t.reads
           ELSE t.reads \cup extract_name_hash_reads(fr, packet)
                        \cup (IF t.val = "Interest" THEN extract_nonce_reads(fr, packet)
                              ELSE {})
           : t \in {parse_ndn_packet(fr, packet)} })

\* frames for the NDN port, whole or cut short, whose UDP length field is
\* right, too small, or larger than the frame
LengthFrames ==
    [data : {KernelBase}, frame_len : {40, 63, 72, 82},
     eth_type : {ETH_P_IPV6}, next_hdr : {IPPROTO_UDP}, src_port : {NDN_PORT},
     dst_port : {NDN_PORT}, udp_length : {0, 7, 8, 9, 18, 23, 28, 65535},
     tlv_type : {TLV_INTEREST, TLV_DATA, 3}]

\* lib.rs try_ndn_xdp as far as the reads of the frame go: Packet::parse, then
\* the type, the name hash and the nonce
ParseFrame(fr, checks) ==
    /\ codec = NoCodec
    /\ build = "lib"
    /\ codec' = Only({ [op |-> "frame", frame |-> fr, checks |-> checks, out |-> packet,
                        reads |-> IF packet.st = "Ok" THEN FrameReads(fr, packet) ELSE {}]
                       : packet \in {Packet_parse(fr, checks)} })
    /\ UNCHANGED <<fwdvars, lk, api, facevars>>

\* main.rs try_ndn_xdp up to the total counter, for a frame that holds its
\* three headers (parse_ethhdr, parse_ip6hdr and parse_udphdr are not in the
\* sources)
main_classify(fr) ==
    IF fr.eth_type # ETH_P_IPV6 THEN "pass"
    ELSE IF fr.next_hdr # IPPROTO_UDP THEN "pass"
    ELSE IF fr.dst_port # NDN_PORT /\ fr.src_port # NDN_PORT THEN "pass"
    ELSE "ndn"

\* lib.rs ndn_xdp and try_ndn_xdp up to the total counter: an Err of
\* Packet::parse leaves through ? and becomes XDP_ABORTED
lib_classify(fr, checks) ==
    Only({ IF packet.st = "Ok" THEN "ndn"
           ELSE IF packet.st = "Panic" THEN "panic"
           ELSE "abort"
           : packet \in {Packet_parse(fr, checks)} })

\* whole frames that carry an Interest or a Data for one name: IPv6 or not,
\* UDP or not, to and from the NDN port or another
FrameInputs ==
    { fr \in [type : {"Interest", "Data"}, hash : {compute_prefix_hash(<<CompA>>)},
              len : {0}, nonce : {0}, ifindex : {1}, data_len : DataLens,
              lifetime_ms : {DEFAULT_LIFETIME_MS},
              data : {KernelBase}, frame_len : {82},
              eth_type : {ETH_P_IPV6, 2048}, next_hdr : {IPPROTO_UDP, 6},
              src_port : {NDN_PORT, 53}, dst_port : {NDN_PORT, 53},
              udp_length : {28}, tlv_type : {TLV_INTEREST, TLV_DATA}] :
          fr.tlv_type = (IF fr.type = "Interest" THEN TLV_INTEREST ELSE TLV_DATA) }

\* a frame arrives on CPU c and is classified; one that is taken for NDN
\* traffic goes on to the total counter, the others leave the program here
ArriveFrame(c, fr, checks) ==
    /\ npk < MaxFrames
    /\ \A d \in CPUs : pc[d] = "idle"
    /\ npk' = npk + 1
    /\ pkt' = [pkt EXCEPT ![c] = fr]
    /\ pre' = [pre EXCEPT ![c] = Snapshot]
    /\ LET class == IF build = "main" THEN main_classify(fr) ELSE lib_classify(fr, checks)
       IN  /\ pc' = [pc EXCEPT ![c] =
                        IF class = "ndn" THEN (IF build = "main" THEN "m_total" ELSE "l_total")
                        ELSE IF class = "panic" THEN "panic"
                        ELSE "done"]
           /\ ret' = [ret EXCEPT ![c] =
                        IF class = "pass" THEN XDP_PASS
                        ELSE IF class = "abort" THEN XDP_ABORTED
                        ELSE @]
           /\ why' = [why EXCEPT ![c] =
                        IF class = "pass" THEN "not_ndn"
                        ELSE IF class = "abort" THEN "aborted"
                        ELSE @]
    /\ UNCHANGED <<lk, extvars, facevars, build, now, pit, cs, fib, metrics, reg, hop>>

NextFrame ==
    \/ \E c \in CPUs, fr \in FrameInputs, checks \in BOOLEAN : ArriveFrame(c, fr, checks)
    \/ \E c \in CPUs : CpuStep(c)
    \/ codec = NoCodec /\ \E fr \in LengthFrames, checks \in BOOLEAN : ParseFrame(fr, checks)

SpecFrame == Init /\ [][NextFrame]_vars

(***************************************************************************)
(* The QUIC face (rust-udcn-quic face.rs) and transport (transport.rs)     *)
(***************************************************************************)
\* the key of the pending map: interest.name().to_string()
Key(name) == NameToString(name)

Range(q) == { q[i] : i \in 1..Len(q) }

\* Face::id of a face made by NdnQuicClient::connect or NdnQuicServer::run:
\* format!("quic:{}", addr)
FaceId(f) == addr[f]

RECURSIVE SeqWithout(_, _)
\* Vec::retain(|f| f.id() != id)
SeqWithout(q, id) ==
    IF q = << >> THEN << >>
    ELSE IF FaceId(Head(q)) = id THEN SeqWithout(Tail(q), id)
         ELSE <<Head(q)>> \o SeqWithout(Tail(q), id)

RECURSIVE UpTo(_)
UpTo(n) == IF n = 0 THEN << >> ELSE Append(UpTo(n - 1), n)

\* the oneshot receiver lives from its creation to the end of the await on it
\* or to an early return of the call
RxAlive(k) == cpc[k] \in {"send", "open", "wait"}

\* oneshot::Sender::send: fails when the receiver is gone
OneshotSend(ch, k, msg) ==
    IF RxAlive(k) /\ ch[k] = ChanEmpty THEN [ch EXCEPT ![k] = msg] ELSE ch

\* a Sender dropped without having sent closes the channel
DropSender(ch, k) == IF ch[k] = ChanEmpty THEN [ch EXCEPT ![k] = ChanClosed] ELSE ch

\* HashMap::remove(&name), dropping the sender found
RemoveWaiter(ch, f, key) ==
    IF key \in DOMAIN pending[f] THEN DropSender(ch, pending[f][key]) ELSE ch

Bump(counter) == [fm EXCEPT ![counter] = @ + 1]

\* NdnQuicTransport::connect: NdnQuicClient::connect makes the face, which is
\* pushed on the transport's list
ConnectAddr(f, a) ==
    /\ tpc = "idle"
    /\ f = nfaces + 1
    /\ f \in Faces
    /\ nfaces' = f
    /\ conn' = [conn EXCEPT ![f] = "open"]
    /\ addr' = [addr EXCEPT ![f] = a]
    /\ registry' = Append(registry, f)
    /\ tev' = [ev |-> "FaceCreated", face_id |-> a]
    /\ UNCHANGED <<fwdvars, lk, api, codec, server, closed, pending, events, clpc, clby, pendHolder, ncalls,
                  cpc, call, chan, result, nstreams, stream, tpc, tq, tsnap, at_close,
                  pe, clock, fm>>

\* a connect to a remote address no face of the transport has
Connect(f) == ConnectAddr(f, f)

\* NdnQuicServer::run: an inbound connection is established and the face
\* made for it by Face::new_from_connection is put in the server's own map,
\* faces.insert(face_id, ..), in the place of a face that has the same id
AcceptAddr(f, a) ==
    /\ tpc = "idle"
    /\ f = nfaces + 1
    /\ f \in Faces
    /\ nfaces' = f
    /\ conn' = [conn EXCEPT ![f] = "open"]
    /\ addr' = [addr EXCEPT ![f] = a]
    /\ server' = { g \in server : FaceId(g) # a } \cup {f}
    /\ UNCHANGED <<fwdvars, lk, api, codec, tev, registry, closed, pending, events, clpc, clby,
                  pendHolder, ncalls, cpc, call, chan, result, nstreams, stream, tpc, tq,
                  tsnap, at_close, pe, clock, fm>>

\* a connection from a remote address no face of the transport has
Accept(f) == AcceptAddr(f, f)

\* the face is on the transport's list
InRegistry(f) == f \in Range(registry)

RECURSIVE FirstWithId(_, _)
FirstWithId(q, id) ==
    IF q = << >> THEN 0
    ELSE IF FaceId(Head(q)) = id THEN Head(q) ELSE FirstWithId(Tail(q), id)

\* faces.iter().find(|f| f.id() == id) on the transport's list: the first
\* face that has the id (0 stands for None)
find_face(id) == FirstWithId(registry, id)

\* Face::express_interest, the closed check at its head
Start(k, f, name, t) ==
    /\ k = ncalls + 1
    /\ k \in Calls
    /\ f \in 1..nfaces
    /\ clpc[f] = "idle"
    /\ ncalls' = k
    /\ call' = [call EXCEPT ![k] = [face |-> f, name |-> name, timeout |-> t, deadline |-> 0,
                                     op |-> "express_interest", late |-> closed[f],
                                     gone |-> conn[f] # "open"]]
    /\ IF closed[f]
       THEN /\ result' = [result EXCEPT ![k] = [st |-> "FaceClosed"]]
            /\ cpc' = [cpc EXCEPT ![k] = "done"]
       ELSE /\ cpc' = [cpc EXCEPT ![k] = "insert"]
            /\ result' = result
    /\ UNCHANGED <<fwdvars, lk, extvars, nfaces, registry, conn, closed, pending, events, clpc,
                  clby, pendHolder, chan, nstreams, stream, tpc, tq, tsnap, at_close, pe,
                  clock, fm>>

\* oneshot::channel() and pending_interests.lock().await.insert(name, sender):
\* a sender already stored under the name is replaced and dropped
CallInsert(k) ==
    /\ cpc[k] = "insert"
    /\ pendHolder[call[k].face] = "free"
    /\ LET f == call[k].face
           key == Key(call[k].name)
       IN  /\ chan' = [RemoveWaiter(chan, f, key) EXCEPT ![k] = ChanEmpty]
           /\ pending' = [pending EXCEPT ![f] = MapPut(@, key, k)]
    /\ cpc' = [cpc EXCEPT ![k] = "send"]
    /\ UNCHANGED <<fwdvars, lk, extvars, nfaces, registry, conn, closed, events, clpc, clby,
                  pendHolder, ncalls, call, result, nstreams, stream, tpc, tq, tsnap,
                  at_close, pe, clock, fm>>

\* send_packet, its closed check: the error leaves express_interest through
\* the ? operator, past the clean-up
CallSendCheck(k) ==
    /\ cpc[k] = "send"
    /\ clpc[call[k].face] = "idle"
    /\ IF closed[call[k].face]
       THEN /\ result' = [result EXCEPT ![k] = [st |-> "FaceClosed"]]
            /\ cpc' = [cpc EXCEPT ![k] = "done"]
       ELSE /\ cpc' = [cpc EXCEPT ![k] = "open"]
            /\ result' = result
    /\ UNCHANGED <<fwdvars, lk, extvars, nfaces, registry, conn, closed, pending, events, clpc,
                  clby, pendHolder, ncalls, call, chan, nstreams, stream, tpc, tq, tsnap,
                  at_close, pe, clock, fm>>

\* send_packet: open_bi, write_all, finish; then interests_sent and the
\* timeout on the receiver starts
CallOpen(k) ==
    /\ cpc[k] = "open"
    /\ IF conn[call[k].face] = "open"
       THEN /\ cpc' = [cpc EXCEPT ![k] = "wait"]
            /\ call' = [call EXCEPT ![k].deadline = clock + call[k].timeout]
            /\ fm' = Bump("interests_sent")
            /\ result' = result
       ELSE /\ cpc' = [cpc EXCEPT ![k] = "done"]
            /\ result' = [result EXCEPT ![k] = [st |-> "SendError"]]
            /\ call' = call
            /\ fm' = fm
    /\ UNCHANGED <<fwdvars, lk, extvars, nfaces, registry, conn, closed, pending, events, clpc,
                  clby, pendHolder, ncalls, chan, nstreams, stream, tpc, tq, tsnap,
                  at_close, pe, clock>>

\* a send_data whose send_packet goes on to open_bi whatever the closed flag
SendData_unchecked(k, f, name) ==
    /\ k = ncalls + 1
    /\ k \in Calls
    /\ f \in 1..nfaces
    /\ clpc[f] = "idle"
    /\ ncalls' = k
    /\ call' = [call EXCEPT ![k] = [face |-> f, name |-> name, timeout |-> 0, deadline |-> 0,
                                     op |-> "send_data", late |-> closed[f],
                                     gone |-> conn[f] # "open"]]
    /\ cpc' = [cpc EXCEPT ![k] = "data_open"]
    /\ result' = result
    /\ UNCHANGED <<fwdvars, lk, extvars, nfaces, registry, conn, closed, pending, events, clpc,
                  clby, pendHolder, chan, nstreams, stream, tpc, tq, tsnap, at_close, pe,
                  clock, fm>>

\* Face::send_data: send_packet and the closed check at its head
SendData(k, f, name) ==
    /\ k = ncalls + 1
    /\ k \in Calls
    /\ f \in 1..nfaces
    /\ clpc[f] = "idle"
    /\ ncalls' = k
    /\ call' = [call EXCEPT ![k] = [face |-> f, name |-> name, timeout |-> 0, deadline |-> 0,
                                     op |-> "send_data", late |-> closed[f],
                                     gone |-> conn[f] # "open"]]
    /\ IF closed[f]
       THEN /\ result' = [result EXCEPT ![k] = [st |-> "FaceClosed"]]
            /\ cpc' = [cpc EXCEPT ![k] = "done"]
       ELSE /\ cpc' = [cpc EXCEPT ![k] = "data_open"]
            /\ result' = result
    /\ UNCHANGED <<fwdvars, lk, extvars, nfaces, registry, conn, closed, pending, events, clpc,
                  clby, pendHolder, chan, nstreams, stream, tpc, tq, tsnap, at_close, pe,
                  clock, fm>>

\* send_packet for send_data: open_bi, write_all, finish; then data_sent
SendDataOpen(k) ==
    /\ cpc[k] = "data_open"
    /\ cpc' = [cpc EXCEPT ![k] = "done"]
    /\ IF conn[call[k].face] = "open"
       THEN /\ result' = [result EXCEPT ![k] = [st |-> "Sent"]]
            /\ fm' = Bump("data_sent")
       ELSE /\ result' = [result EXCEPT ![k] = [st |-> "SendError"]]
            /\ fm' = fm
    /\ UNCHANGED <<fwdvars, lk, extvars, nfaces, registry, conn, closed, pending, events, clpc,
                  clby, pendHolder, ncalls, call, chan, nstreams, stream, tpc, tq, tsnap,
                  at_close, pe, clock>>

\* a call of the transport for an id that is not on its list:
\* .ok_or_else(|| anyhow!("Face not found: {}", id))?
FaceNotFound(k, f, name, op) ==
    /\ k = ncalls + 1
    /\ k \in Calls
    /\ f \in 1..nfaces
    /\ ncalls' = k
    /\ call' = [call EXCEPT ![k] = [face |-> f, name |-> name, timeout |-> 0, deadline |-> 0,
                                     op |-> op, late |-> closed[f], gone |-> conn[f] # "open"]]
    /\ result' = [result EXCEPT ![k] = [st |-> "FaceNotFound"]]
    /\ cpc' = [cpc EXCEPT ![k] = "done"]
    /\ UNCHANGED <<fwdvars, lk, extvars, nfaces, registry, conn, closed, pending, events, clpc,
                  clby, pendHolder, chan, nstreams, stream, tpc, tq, tsnap, at_close, pe,
                  clock, fm>>

\* NdnQuicTransport::express_interest with Some(id), id being the id of face
\* f: the face is looked up on the transport's list, then
\* Face::express_interest
TExpressInterest(k, f, name, t) ==
    IF find_face(FaceId(f)) # 0 THEN Start(k, find_face(FaceId(f)), name, t)
    ELSE FaceNotFound(k, f, name, "express_interest")

\* NdnQuicTransport::send_data: the same lookup, then Face::send_data
TSendData(k, f, name) ==
    IF find_face(FaceId(f)) # 0 THEN SendData(k, find_face(FaceId(f)), name)
    ELSE FaceNotFound(k, f, name, "send_data")

\* timeout(Duration, receiver).await: the receiver is polled before the timer
CallPoll(k) ==
    /\ cpc[k] = "wait"
    /\ (chan[k] # ChanEmpty) \/ (clock >= call[k].deadline)
    /\ IF chan[k].st = "Data"
       THEN /\ result' = [result EXCEPT ![k] = chan[k]]
            /\ fm' = Bump("interests_satisfied")
            /\ cpc' = [cpc EXCEPT ![k] = "done"]
       ELSE IF chan[k].st = "NetworkError"
       THEN /\ result' = [result EXCEPT ![k] = chan[k]]
            /\ fm' = fm
            /\ cpc' = [cpc EXCEPT ![k] = "cleanup"]
       ELSE IF chan[k] = ChanClosed
       THEN /\ result' = [result EXCEPT ![k] = [st |-> "ChannelClosed"]]
            /\ fm' = fm
            /\ cpc' = [cpc EXCEPT ![k] = "cleanup"]
       ELSE /\ result' = result
            /\ fm' = fm
            /\ cpc' = [cpc EXCEPT ![k] = "elapsed"]
    /\ UNCHANGED <<fwdvars, lk, extvars, nfaces, registry, conn, closed, pending, events, clpc,
                  clby, pendHolder, ncalls, call, chan, nstreams, stream, tpc, tq, tsnap,
                  at_close, pe, clock>>

\* the Err(Elapsed) arm: remove(&name), interests_timed_out, Timeout
CallElapsed(k) ==
    /\ cpc[k] = "elapsed"
    /\ pendHolder[call[k].face] = "free"
    /\ LET f == call[k].face
           key == Key(call[k].name)
       IN  /\ chan' = RemoveWaiter(chan, f, key)
           /\ pending' = [pending EXCEPT ![f] = MapDel(@, key)]
    /\ fm' = Bump("interests_timed_out")
    /\ result' = [result EXCEPT ![k] = [st |-> "Timeout"]]
    /\ cpc' = [cpc EXCEPT ![k] = "cleanup"]
    /\ UNCHANGED <<fwdvars, lk, extvars, nfaces, registry, conn, closed, events, clpc, clby,
                  pendHolder, ncalls, call, nstreams, stream, tpc, tq, tsnap, at_close,
                  pe, clock>>

\* if !result.is_ok() { pending_interests.lock().await.remove(&name) }
CallCleanup(k) ==
    /\ cpc[k] = "cleanup"
    /\ pendHolder[call[k].face] = "free"
    /\ LET f == call[k].face
           key == Key(call[k].name)
       IN  /\ chan' = RemoveWaiter(chan, f, key)
           /\ pending' = [pending EXCEPT ![f] = MapDel(@, key)]
    /\ cpc' = [cpc EXCEPT ![k] = "done"]
    /\ UNCHANGED <<fwdvars, lk, extvars, nfaces, registry, conn, closed, events, clpc, clby,
                  pendHolder, ncalls, call, result, nstreams, stream, tpc, tq, tsnap,
                  at_close, pe, clock, fm>>

\* process_incoming_streams: accept_bi yields a substream, the face is not
\* closed, and process_stream is spawned; it reads the substream to its end
\* and decodes one packet
StreamArrive(f, kind, name) ==
    /\ nstreams < MaxStreams
    /\ conn[f] = "open"
    /\ clpc[f] = "idle"
    /\ ~closed[f]
    /\ nstreams' = nstreams + 1
    /\ stream' = [stream EXCEPT ![nstreams + 1] =
                     [pc |-> "dispatch", face |-> f, kind |-> kind, name |-> name, to |-> 0,
                      aw |-> FALSE]]
    /\ UNCHANGED <<fwdvars, lk, extvars, nfaces, registry, conn, closed, pending, events, clpc,
                  clby, pendHolder, ncalls, cpc, call, chan, result, tpc, tq, tsnap,
                  at_close, pe, clock, fm>>

\* process_stream, NdnPacket::Interest: interests_received, then the event
StreamInterest(s) ==
    /\ stream[s].pc = "dispatch"
    /\ stream[s].kind = "Interest"
    /\ fm' = Bump("interests_received")
    /\ stream' = [stream EXCEPT ![s].pc = "emit"]
    /\ UNCHANGED <<fwdvars, lk, extvars, nfaces, registry, conn, closed, pending, events, clpc,
                  clby, pendHolder, ncalls, cpc, call, chan, result, nstreams, tpc, tq,
                  tsnap, at_close, pe, clock>>

\* substreams that carry no packet: one the peer finishes without a byte, one
\* whose bytes start with a type that is neither Interest nor Data, and one
\* that holds the start of an Interest only
BadKinds == {"Empty", "UnknownType", "Truncated"}

\* the chunks read_chunk yields for such a substream
StreamChunks(kind) ==
    IF kind = "Empty" THEN << >>
    ELSE IF kind = "UnknownType" THEN << <<3, 2>>, <<TLV_NAME, 0>> >>
    ELSE << <<TLV_INTEREST, 24, TLV_NAME>>, <<3, TLV_COMPONENT>> >>

\* process_stream up to its match: whether assemble_fragments(fragments)? or
\* NdnPacket::from_bytes(&packet_bytes)? returns the error
process_stream_fails(chunks) ==
    Only({ IF b.st # "Ok" THEN TRUE ELSE from_bytes(b.val).st # "Ok"
           : b \in {assemble_fragments(chunks)} })

\* a process_stream whose error closes the face
StreamFail_closing(s) ==
    /\ stream[s].pc = "dispatch"
    /\ stream[s].kind \in BadKinds
    /\ process_stream_fails(StreamChunks(stream[s].kind))
    /\ stream' = [stream EXCEPT ![s].pc = "failed"]
    /\ closed' = [closed EXCEPT ![stream[s].face] = TRUE]
    /\ UNCHANGED <<fwdvars, lk, extvars, nfaces, registry, conn, pending, events, clpc,
                  clby, pendHolder, ncalls, cpc, call, chan, result, nstreams, tpc, tq,
                  tsnap, at_close, pe, clock, fm>>

\* process_stream returns the error before its match; the task spawned for
\* the substream logs it (face.rs:266-276) and ends
StreamFail(s) ==
    /\ stream[s].pc = "dispatch"
    /\ stream[s].kind \in BadKinds
    /\ process_stream_fails(StreamChunks(stream[s].kind))
    /\ stream' = [stream EXCEPT ![s].pc = "failed"]
    /\ UNCHANGED <<fwdvars, lk, extvars, nfaces, registry, conn, closed, pending, events, clpc,
                  clby, pendHolder, ncalls, cpc, call, chan, result, nstreams, tpc, tq,
                  tsnap, at_close, pe, clock, fm>>

\* the call whose sender process_stream finds under the Data's name while
\* that call still holds its receiver; 0 if there is none
Waiting(s) ==
    LET f == stream[s].face
        key == Key(stream[s].name)
    IN  IF key \in DOMAIN pending[f] /\ RxAlive(pending[f][key])
        THEN pending[f][key] ELSE 0

\* whether that call has sent its Interest and awaits the receiver
Awaited(s) == IF Waiting(s) = 0 THEN FALSE ELSE cpc[Waiting(s)] = "wait"

\* a process_stream that hands the Data over but leaves the entry in the map
StreamData_keeps_entry(s) ==
    /\ stream[s].pc = "dispatch"
    /\ stream[s].kind = "Data"
    /\ pendHolder[stream[s].face] = "free"
    /\ LET f == stream[s].face
           key == Key(stream[s].name)
       IN  /\ pendHolder' = [pendHolder EXCEPT ![f] = "stream"]
           /\ IF key \in DOMAIN pending[f]
              THEN /\ pending' = pending
                   /\ chan' = OneshotSend(chan, pending[f][key], DataMsg(s))
              ELSE /\ pending' = pending
                   /\ chan' = chan
    /\ fm' = Bump("data_received")
    /\ stream' = [stream EXCEPT ![s].pc = "emit_locked", ![s].to = Waiting(s),
                                ![s].aw = Awaited(s)]
    /\ UNCHANGED <<fwdvars, lk, extvars, nfaces, registry, conn, closed, events, clpc, clby,
                  ncalls, cpc, call, result, nstreams, tpc, tq, tsnap, at_close, pe,
                  clock>>

\* process_stream, NdnPacket::Data: data_received; under the pending lock the
\* sender stored under the name is removed and handed the Data; the lock is
\* kept until the event is sent
StreamData(s) ==
    /\ stream[s].pc = "dispatch"
    /\ stream[s].kind = "Data"
    /\ pendHolder[stream[s].face] = "free"
    /\ LET f == stream[s].face
           key == Key(stream[s].name)
       IN  /\ pendHolder' = [pendHolder EXCEPT ![f] = "stream"]
           /\ IF key \in DOMAIN pending[f]
              THEN /\ pending' = [pending EXCEPT ![f] = MapDel(@, key)]
                   /\ chan' = OneshotSend(chan, pending[f][key], DataMsg(s))
              ELSE /\ pending' = pending
                   /\ chan' = chan
    /\ fm' = Bump("data_received")
    /\ stream' = [stream EXCEPT ![s].pc = "emit_locked", ![s].to = Waiting(s),
                                ![s].aw = Awaited(s)]
    /\ UNCHANGED <<fwdvars, lk, extvars, nfaces, registry, conn, closed, events, clpc, clby,
                  ncalls, cpc, call, result, nstreams, tpc, tq, tsnap, at_close, pe,
                  clock>>

\* a process_stream that sends no event for a Data nobody waited for
StreamEmit_silent(s) ==
    /\ stream[s].pc \in {"emit", "emit_locked"}
    /\ Len(events[stream[s].face]) < EventCap
    /\ events' = IF stream[s].pc = "emit_locked" /\ stream[s].to = 0
                 THEN events
                 ELSE [events EXCEPT ![stream[s].face] = Append(@, stream[s].kind)]
    /\ pendHolder' = IF stream[s].pc = "emit_locked"
                     THEN [pendHolder EXCEPT ![stream[s].face] = "free"]
                     ELSE pendHolder
    /\ stream' = [stream EXCEPT ![s].pc = "fin"]
    /\ UNCHANGED <<fwdvars, lk, extvars, nfaces, registry, conn, closed, pending, clpc, clby,
                  ncalls, cpc, call, chan, result, nstreams, tpc, tq, tsnap, at_close,
                  pe, clock, fm>>

\* process_stream: event_sender.lock().await.send(event).await, which waits
\* for room in the face's event channel
StreamEmit(s) ==
    /\ stream[s].pc \in {"emit", "emit_locked"}
    /\ Len(events[stream[s].face]) < EventCap
    /\ events' = [events EXCEPT ![stream[s].face] = Append(@, stream[s].kind)]
    /\ pendHolder' = IF stream[s].pc = "emit_locked"
                     THEN [pendHolder EXCEPT ![stream[s].face] = "free"]
                     ELSE pendHolder
    /\ stream' = [stream EXCEPT ![s].pc = "fin"]
    /\ UNCHANGED <<fwdvars, lk, extvars, nfaces, registry, conn, closed, pending, clpc, clby,
                  ncalls, cpc, call, chan, result, nstreams, tpc, tq, tsnap, at_close,
                  pe, clock, fm>>

\* the peer or the network ends the connection
ConnLost(f) ==
    /\ conn[f] = "open"
    /\ conn' = [conn EXCEPT ![f] = "lost"]
    /\ UNCHANGED <<fwdvars, lk, extvars, nfaces, registry, closed, pending, events, clpc, clby,
                  pendHolder, ncalls, cpc, call, chan, result, nstreams, stream, tpc, tq,
                  tsnap, at_close, pe, clock, fm>>

\* process_incoming_streams after its loop: takes the closed lock and, if the
\* face is not closed yet, closes it
LostHandler(f) ==
    /\ conn[f] = "lost"
    /\ clpc[f] = "idle"
    /\ ~closed[f]
    /\ closed' = [closed EXCEPT ![f] = TRUE]
    /\ clpc' = [clpc EXCEPT ![f] = "drain"]
    /\ clby' = [clby EXCEPT ![f] = "lost"]
    /\ UNCHANGED <<fwdvars, lk, extvars, nfaces, registry, conn, pending, events, pendHolder,
                  ncalls, cpc, call, chan, result, nstreams, stream, tpc, tq, tsnap,
                  at_close, pe, clock, fm>>

\* Face::close called on the face itself: takes the closed lock, returns if
\* the face is closed, else sets the flag and closes the connection
FaceClose(f) ==
    /\ f \in 1..nfaces
    /\ clpc[f] = "idle"
    /\ ~closed[f]
    /\ closed' = [closed EXCEPT ![f] = TRUE]
    /\ conn' = [conn EXCEPT ![f] = "closed"]
    /\ clpc' = [clpc EXCEPT ![f] = "drain"]
    /\ clby' = [clby EXCEPT ![f] = "close"]
    /\ UNCHANGED <<fwdvars, lk, extvars, nfaces, registry, pending, events, pendHolder,
                  ncalls, cpc, call, chan, result, nstreams, stream, tpc, tq, tsnap,
                  at_close, pe, clock, fm>>

\* Face::close and the loop's end alike: under the closed lock, take the
\* pending lock and send NetworkError to every sender drained from the map
FaceDrain(f) ==
    /\ clpc[f] = "drain"
    /\ pendHolder[f] = "free"
    /\ LET owners == { pending[f][key] : key \in DOMAIN pending[f] }
           msg == IF clby[f] = "close" THEN "Face closed" ELSE "Connection closed"
       IN  /\ chan' = [k \in Calls |->
                         IF k \in owners /\ RxAlive(k) /\ chan[k] = ChanEmpty
                         THEN NetworkError(msg) ELSE chan[k]]
           /\ at_close' = [k \in Calls |->
                             \/ at_close[k]
                             \/ /\ clby[f] = "close"
                                /\ cpc[k] = "wait"
                                /\ call[k].face = f
                                /\ chan[k].st \in {"empty", "closed"}]
    /\ pending' = [pending EXCEPT ![f] = EmptyMap]
    /\ pendHolder' = [pendHolder EXCEPT ![f] = "close"]
    /\ clpc' = [clpc EXCEPT ![f] = "emit"]
    /\ UNCHANGED <<fwdvars, lk, extvars, nfaces, registry, conn, closed, events, clby, ncalls,
                  cpc, call, result, nstreams, stream, tpc, tq, tsnap, pe, clock, fm>>

\* ... then send FaceEvent::Closed, waiting for room, and release both locks
FaceEmit(f) ==
    /\ clpc[f] = "emit"
    /\ Len(events[f]) < EventCap
    /\ events' = [events EXCEPT ![f] = Append(@, "Closed")]
    /\ pendHolder' = [pendHolder EXCEPT ![f] = "free"]
    /\ clpc' = [clpc EXCEPT ![f] = "idle"]
    /\ UNCHANGED <<fwdvars, lk, extvars, nfaces, registry, conn, closed, pending, clby, ncalls,
                  cpc, call, chan, result, nstreams, stream, tpc, tq, tsnap, at_close,
                  pe, clock, fm>>

\* NdnQuicTransport::close: let faces = self.faces.read().await.clone()
TransportClose ==
    /\ tpc = "idle"
    /\ tpc' = "faces"
    /\ tq' = registry
    /\ tsnap' = Range(registry)
    /\ UNCHANGED <<fwdvars, lk, extvars, nfaces, registry, conn, closed, pending, events, clpc,
                  clby, pendHolder, ncalls, cpc, call, chan, result, nstreams, stream,
                  at_close, pe, clock, fm>>

\* face.close().await in the loop of transport.close and of client.close:
\* Face::close takes the closed lock, returns if the face is closed, else
\* sets the flag and closes the connection
TCloseFace ==
    /\ tpc \in {"faces", "client"}
    /\ tq # << >>
    /\ clpc[Head(tq)] = "idle"
    /\ IF closed[Head(tq)]
       THEN /\ tq' = Tail(tq)
            /\ UNCHANGED <<tpc, closed, conn, clpc, clby>>
       ELSE /\ closed' = [closed EXCEPT ![Head(tq)] = TRUE]
            /\ conn' = [conn EXCEPT ![Head(tq)] = "closed"]
            /\ clpc' = [clpc EXCEPT ![Head(tq)] = "drain"]
            /\ clby' = [clby EXCEPT ![Head(tq)] = "close"]
            /\ tpc' = IF tpc = "faces" THEN "faces_wait" ELSE "client_wait"
            /\ tq' = tq
    /\ UNCHANGED <<fwdvars, lk, extvars, nfaces, registry, pending, events, pendHolder, ncalls,
                  cpc, call, chan, result, nstreams, stream, tsnap, at_close, pe, clock,
                  fm>>

\* Face::close has returned
TCloseWait ==
    /\ tpc \in {"faces_wait", "client_wait"}
    /\ clpc[Head(tq)] = "idle"
    /\ tq' = Tail(tq)
    /\ tpc' = IF tpc = "faces_wait" THEN "faces" ELSE "client"
    /\ UNCHANGED <<fwdvars, lk, extvars, nfaces, registry, conn, closed, pending, events, clpc,
                  clby, pendHolder, ncalls, cpc, call, chan, result, nstreams, stream,
                  tsnap, at_close, pe, clock, fm>>

\* NdnQuicClient::close: the faces of the client's own map
TClientClose ==
    /\ tpc = "faces"
    /\ tq = << >>
    /\ tpc' = "client"
    /\ tq' = UpTo(nfaces)
    /\ UNCHANGED <<fwdvars, lk, extvars, nfaces, registry, conn, closed, pending, events, clpc,
                  clby, pendHolder, ncalls, cpc, call, chan, result, nstreams, stream,
                  tsnap, at_close, pe, clock, fm>>

\* endpoint.close(..): every connection of the endpoint ends
TEndpointClose ==
    /\ tpc = "client"
    /\ tq = << >>
    /\ conn' = [f \in Faces |-> IF conn[f] = "none" THEN "none" ELSE "closed"]
    /\ tpc' = "done"
    /\ UNCHANGED <<fwdvars, lk, extvars, nfaces, registry, closed, pending, events, clpc, clby,
                  pendHolder, ncalls, cpc, call, chan, result, nstreams, stream, tq,
                  tsnap, at_close, pe, clock, fm>>

\* process_events: let current_faces = faces.read().await.clone()
PESnap ==
    /\ pe.pc = "snap"
    /\ registry # << >>
    /\ pe' = [pc |-> "loop", q |-> registry]
    /\ UNCHANGED <<fwdvars, lk, extvars, nfaces, registry, conn, closed, pending, events, clpc,
                  clby, pendHolder, ncalls, cpc, call, chan, result, nstreams, stream,
                  tpc, tq, tsnap, at_close, clock, fm>>

\* process_events: the TransportEvent sent for a FaceEvent of a face
TransportEvent(kind, f) ==
    [ev |-> IF kind = "Interest" THEN "InterestReceived"
            ELSE IF kind = "Data" THEN "DataReceived"
            ELSE "FaceClosed",
     face_id |-> FaceId(f)]

\* process_events: face.next_event().await for the faces of the snapshot in
\* turn, waiting at each face until it has an event; the event is sent on
\* the transport's channel, and a Closed event removes the face from the list
PENext ==
    /\ pe.pc = "loop"
    /\ events[Head(pe.q)] # << >>
    /\ events' = [events EXCEPT ![Head(pe.q)] = Tail(@)]
    /\ registry' = IF Head(events[Head(pe.q)]) = "Closed"
                   THEN SeqWithout(registry, FaceId(Head(pe.q)))
                   ELSE registry
    /\ tev' = TransportEvent(Head(events[Head(pe.q)]), Head(pe.q))
    /\ pe' = IF Tail(pe.q) = << >> THEN [pc |-> "snap", q |-> << >>]
             ELSE [pc |-> "loop", q |-> Tail(pe.q)]
    /\ UNCHANGED <<fwdvars, lk, api, codec, server, addr, nfaces, conn, closed, pending, clpc, clby, pendHolder,
                  ncalls, cpc, call, chan, result, nstreams, stream, tpc, tq, tsnap,
                  at_close, clock, fm>>

\* time passes
TickClock ==
    /\ clock < MaxClock
    /\ clock' = clock + 1
    /\ UNCHANGED <<fwdvars, lk, extvars, nfaces, registry, conn, closed, pending, events, clpc,
                  clby, pendHolder, ncalls, cpc, call, chan, result, nstreams, stream,
                  tpc, tq, tsnap, at_close, pe, fm>>

CallStep(k) ==
    \/ CallInsert(k)
    \/ CallSendCheck(k)
    \/ CallOpen(k)
    \/ CallPoll(k)
    \/ CallElapsed(k)
    \/ CallCleanup(k)

\* process_events, the event pump of the transport
Pump ==
    \/ PESnap
    \/ PENext

InitFace ==
    /\ FwdInit
    /\ build = "main"
    /\ metrics = [k \in MetricKeys |-> Absent]
    /\ lk = NoLookup
    /\ api = NoApi
    /\ codec = NoCodec
    /\ FaceInit

\* one face that stays open, express_interest calls and Data from the peer
NextFace ==
    \/ TickClock
    \/ Connect(1)
    \/ \E k \in Calls, name \in FaceNames, t \in Timeouts : Start(k, 1, name, t)
    \/ \E k \in Calls : CallStep(k)
    \/ \E name \in FaceNames : StreamArrive(1, "Data", name)
    \/ \E kind \in BadKinds : StreamArrive(1, kind, << >>)
    \/ \E s \in Streams : StreamData(s)
    \/ \E s \in Streams : StreamFail(s)
    \/ \E s \in Streams : StreamEmit(s)
    \/ Pump

SpecFace == InitFace /\ [][NextFace]_vars

\* a substream arrives, within the bound of the closing scenario
StreamArriveClose(f, kind, name) ==
    /\ nstreams < MaxCloseStreams
    /\ StreamArrive(f, kind, name)

CloseStep ==
    \/ TransportClose
    \/ TCloseFace
    \/ TCloseWait
    \/ TClientClose
    \/ TEndpointClose

\* several faces, calls for one name, packets from the peers and
\* transport.close()
NextClose ==
    \/ TickClock
    \/ \E f \in Faces : Connect(f)
    \/ \E k \in Calls, f \in Faces, t \in Timeouts : Start(k, f, <<CompA>>, t)
    \/ \E k \in Calls : CallStep(k)
    \/ \E f \in Faces, kind \in {"Interest", "Data"} : StreamArriveClose(f, kind, <<CompA>>)
    \/ \E s \in Streams : StreamInterest(s)
    \/ \E s \in Streams : StreamData(s)
    \/ \E s \in Streams : StreamEmit(s)
    \/ \E f \in Faces : FaceDrain(f)
    \/ \E f \in Faces : FaceEmit(f)
    \/ CloseStep
    \/ Pump

SpecClose == InitFace /\ [][NextClose]_vars

\* one face that is closed or whose connection ends, under express_interest
\* and send_data calls
NextLost ==
    \/ TickClock
    \/ Connect(1)
    \/ \E k \in Calls, t \in Timeouts : Start(k, 1, <<CompA>>, t)
    \/ \E k \in Calls : CallStep(k)
    \/ \E k \in Calls : SendData(k, 1, <<CompA>>)
    \/ \E k \in Calls : SendDataOpen(k)
    \/ FaceClose(1)
    \/ \E kind \in {"Interest", "Data"} : StreamArriveClose(1, kind, <<CompA>>)
    \/ \E s \in Streams : StreamInterest(s)
    \/ \E s \in Streams : StreamData(s)
    \/ \E s \in Streams : StreamEmit(s)
    \/ ConnLost(1)
    \/ LostHandler(1)
    \/ FaceDrain(1)
    \/ FaceEmit(1)
    \/ Pump

SpecLost == InitFace /\ [][NextLost]_vars

\* client and server faces of one transport whose connections may end, under
\* calls made through the transport and packets from the peers
NextPump ==
    \/ TickClock
    \/ \E f \in Faces : Connect(f)
    \/ \E f \in Faces : Accept(f)
    \/ ncalls < MaxPumpCalls /\ \E k \in Calls, f \in Faces, t \in Timeouts :
                                     TExpressInterest(k, f, <<CompA>>, t)
    \/ \E k \in Calls : CallStep(k)
    \/ ncalls < MaxPumpCalls /\ \E k \in Calls, f \in Faces : TSendData(k, f, <<CompA>>)
    \/ \E k \in Calls : SendDataOpen(k)
    \/ \E f \in Faces, kind \in {"Interest", "Data"} : StreamArriveClose(f, kind, <<CompA>>)
    \/ \E s \in Streams : StreamInterest(s)
    \/ \E s \in Streams : StreamData(s)
    \/ \E s \in Streams : StreamEmit(s)
    \/ \E f \in Faces : ConnLost(f)
    \/ \E f \in Faces : LostHandler(f)
    \/ \E f \in Faces : FaceDrain(f)
    \/ \E f \in Faces : FaceEmit(f)
    \/ Pump

\* every spawned task that can run does run: the event pump, the tasks of the
\* substreams, the end of process_incoming_streams, the calls in progress and
\* the timers
PumpFair ==
    /\ WF_vars(Pump)
    /\ WF_vars(TickClock)
    /\ \A f \in Faces : WF_vars(LostHandler(f) \/ FaceDrain(f) \/ FaceEmit(f))
    /\ \A s \in Streams : WF_vars(StreamInterest(s) \/ StreamData(s) \/ StreamEmit(s))
    /\ \A k \in Calls : WF_vars(CallStep(k) \/ SendDataOpen(k))

SpecPump == InitFace /\ [][NextPump]_vars /\ PumpFair

\* the remote addresses: a transport may connect to one address more than
\* once, and a peer may connect from one address more than once
Addrs == 1..NumFaces

\* client and server faces of one transport to and from remote addresses that
\* may repeat, connections that end, and calls made with the id of a face
NextRegistry ==
    \/ TickClock
    \/ \E f \in Faces, a \in Addrs : ConnectAddr(f, a)
    \/ \E f \in Faces, a \in Addrs : AcceptAddr(f, a)
    \/ ncalls < MaxPumpCalls /\ \E k \in Calls, f \in Faces, t \in Timeouts :
                                     TExpressInterest(k, f, <<CompA>>, t)
    \/ \E k \in Calls : CallStep(k)
    \/ \E f \in Faces : ConnLost(f)
    \/ \E f \in Faces : LostHandler(f)
    \/ \E f \in Faces : FaceDrain(f)
    \/ \E f \in Faces : FaceEmit(f)
    \/ Pump

SpecRegistry == InitFace /\ [][NextRegistry]_vars

\* C28: a face whose connection has ended becomes Closed, the event pump
\* eventually sends FaceClosed with its id and takes it off the transport's
\* list, and from then on an express_interest or send_data the transport gets
\* for its id fails with face-not-found.
C28_LostFaceLeavesRegistry ==
    /\ \A f \in Faces : (conn[f] = "lost") ~> (closed[f] /\ ~InRegistry(f))
    /\ \A f \in Faces : (conn[f] = "lost") ~> (tev = [ev |-> "FaceClosed", face_id |-> f])
    /\ [][ \A k \in Calls :
              (ncalls # k /\ ncalls' = k /\ closed[call'[k].face] /\ ~InRegistry(call'[k].face))
                  => (cpc'[k] = "done" /\ result'[k].st = "FaceNotFound") ]_vars

\* C29: a face made for an accepted inbound connection is on the transport's
\* list as long as it is open, an Interest or a Data that arrives on it is
\* eventually sent on by the event pump as InterestReceived or DataReceived
\* with its id, and a send_data for its id is not refused with
\* face-not-found.
C29_AcceptedFaceIsServed ==
    /\ [](\A f \in server : ~closed[f] => InRegistry(f))
    /\ \A f \in Faces, s \in Streams :
          (f \in server /\ stream[s].pc = "fin" /\ stream[s].face = f)
              ~> (tev = TransportEvent(stream[s].kind, f))
    /\ [](\A k \in Calls :
            (cpc[k] = "done" /\ call[k].op = "send_data" /\ call[k].face \in server
               /\ ~call[k].late)
                => result[k].st # "FaceNotFound")

\* C30: once an express_interest call has returned, whatever its result, the
\* pending map of its face holds no sender that the call registered; and a
\* Closed face all of whose calls have returned has an empty pending map.
C30_ReturnedCallLeavesNoWaiter ==
    /\ \A k \in Calls :
          (cpc[k] = "done" /\ call[k].op = "express_interest")
              => \A key \in DOMAIN pending[call[k].face] : pending[call[k].face][key] # k
    /\ \A f \in Faces :
          ( /\ closed[f]
            /\ clpc[f] = "idle"
            /\ \A k \in Calls : cpc[k] \in {"idle", "done"} )
          => pending[f] = EmptyMap

\* the tasks of one open face all run when they can: on a lock that is
\* released every waiting task gets its turn (tokio's Mutex queues them), the
\* timers fire; whoever holds the face is free never to take its events
FaceFair ==
    /\ WF_vars(TickClock)
    /\ \A s \in Streams : SF_vars(StreamData(s) \/ StreamFail(s) \/ StreamEmit(s))
    /\ \A k \in Calls : SF_vars(CallStep(k))

SpecFaceFair == InitFace /\ [][NextFace]_vars /\ FaceFair

\* a call that waits for a deadline after the last instant the clock reaches
BeyondHorizon(k) ==
    cpc[k] = "wait" /\ chan[k] = ChanEmpty /\ call[k].deadline > MaxClock

\* C31: every express_interest call that was made eventually returns, also
\* when nobody takes the events of the face and its event channel is full
\* (a call whose deadline lies after the last instant of the clock is only
\* required to get as far as waiting for it).
C31_EveryCallReturns ==
    \A k \in Calls : (cpc[k] # "idle") ~> (cpc[k] = "done" \/ BeyondHorizon(k))

\* C14: a send_data or express_interest call made on a face that is Closed
\* (closed flag set by close() or by the end of the connection, or the
\* connection already gone) returns an error: it never opens a substream,
\* never writes, and its result is an error.
C14_ClosedFaceRejectsSends ==
    \A k \in Calls :
        (cpc[k] # "idle" /\ (call[k].late \/ call[k].gone))
        => /\ cpc[k] \notin {"wait", "elapsed", "cleanup"}
           /\ cpc[k] = "done" => result[k].st \in {"FaceClosed", "SendError"}
           /\ call[k].late => (cpc[k] = "done" /\ result[k].st = "FaceClosed")

C14_Witness ==
    \E k1, k2 \in Calls :
        /\ cpc[k1] = "done" /\ cpc[k2] = "done"
        /\ call[k1].op = "express_interest" /\ call[k1].late
        /\ call[k2].op = "send_data" /\ call[k2].late
        /\ result[k1].st = "FaceClosed" /\ result[k2].st = "FaceClosed"

\* C15: within a face, events follow the order in which the substreams were
\* accepted: when the event of a substream is put on the face's event channel,
\* the event of every substream accepted before it on that face is already
\* there.
C15_EventsInArrivalOrder ==
    [][ \A s \in Streams :
            StreamEmit(s) =>
                \A s0 \in 1..(s - 1) :
                    stream[s0].face = stream[s].face => stream[s0].pc = "fin" ]_vars

\* C25: a substream whose bytes are empty, of an unknown packet type or not
\* decodable ends with an error for itself only: the step that ends it leaves
\* the face open, every waiter and every oneshot channel as it was, the event
\* channel and the packet counters as they were, and no event of such a
\* substream is ever in the event channel.
C25_BadSubstreamIsLocal ==
    [][ /\ \A s \in Streams :
              ( /\ stream[s].pc = "dispatch"
                /\ stream[s].kind \in BadKinds
                /\ stream'[s].pc # "dispatch" )
              => /\ stream'[s].pc = "failed"
                 /\ closed' = closed
                 /\ conn' = conn
                 /\ clpc' = clpc
                 /\ pending' = pending
                 /\ chan' = chan
                 /\ events' = events
                 /\ fm' = fm
        /\ \A f \in Faces : \A i \in 1..Len(events'[f]) : events'[f][i] \notin BadKinds ]_vars

\* a substream without a packet has failed and a later substream of the same
\* open face has handed its Data to a waiting call and sent its event
C25_Witness ==
    \E s1, s2 \in Streams :
        /\ s1 < s2
        /\ stream[s1].pc = "failed"
        /\ stream[s2].pc = "fin"
        /\ stream[s2].face = stream[s1].face
        /\ stream[s2].kind = "Data"
        /\ stream[s2].to # 0
        /\ stream[s2].aw
        /\ ~closed[stream[s1].face]
        /\ conn[stream[s1].face] = "open"

(***************************************************************************)
(* FIB lookups against routes installed from userspace                     *)
(***************************************************************************)
FibNames == { <<CompA>>, <<CompA, CompB>>, <<CompA, CompB, CompC>>, <<CompA, CompX>> }
FibFaces == {1, 2}

\* the hashes a packet of the name may carry in its name_hash field to have
\* one of the name's prefixes found: those userspace computes for them
PrefixHashes(name) == { compute_prefix_hash(NamePrefix(name, l)) : l \in 0..Len(name) }

\* the classifier's lookup for a packet of the name
LookupKernel(name, h) ==
    /\ lk' = [kind |-> "kernel", name |-> name, hash |-> h, table |-> fib,
              answer |-> find_next_hop(fib, h)]
    /\ UNCHANGED <<fwdvars, extvars, facevars>>

\* Fib::get_route from userspace
LookupUser(name) ==
    /\ lk' = [kind |-> "user", name |-> name, hash |-> compute_prefix_hash(name), table |-> fib,
              answer |-> get_route(fib, name)]
    /\ UNCHANGED <<fwdvars, extvars, facevars>>

NextFib ==
    \/ \E n \in FibNames, f \in FibFaces, k \in RouteCosts : AddRoute(n, f, k)
    \/ \E n \in FibNames : RemoveRoute(n)
    \/ \E n \in FibNames : \E h \in PrefixHashes(n) : LookupKernel(n, h)
    \/ \E n \in FibNames : LookupUser(n)

SpecFib == InitFace /\ [][NextFib]_vars

(***************************************************************************)
(* Properties of the forwarder                                             *)
(***************************************************************************)
\* what userspace reads for a counter: metrics.get(&k, 0).unwrap_or(0)
Counter(m, k) == IF m[k] = Absent THEN 0 ELSE m[k]

\* the PIT key the running program builds for the packet in hand
KeyOf(c) == IF build = "main" THEN MainPitKey(pkt[c]) ELSE LibPitKey(pkt[c])

\* positions between a passed duplicate check and the return
PastPitCheck == {"m_pit_insert", "m_pitins", "m_fib", "m_fibhit",
                 "l_pit_insert", "l_pitins", "l_fib", "l_fibhit"}

\* C1: of two Interests with the same (name_hash, name_len, nonce) handled
\* concurrently while the PIT holds no record for that key, at most one
\* passes the duplicate check.
C1_AtMostOnePasses ==
    \A c1, c2 \in CPUs :
        ( /\ c1 # c2
          /\ pkt[c1].type = "Interest"
          /\ pkt[c2].type = "Interest"
          /\ pkt[c1].hash = pkt[c2].hash
          /\ pkt[c1].len = pkt[c2].len
          /\ pkt[c1].nonce = pkt[c2].nonce
          /\ KeyOf(c1) \notin DOMAIN pre[c1].pit
          /\ KeyOf(c2) \notin DOMAIN pre[c2].pit )
        => ~(pc[c1] \in PastPitCheck /\ pc[c2] \in PastPitCheck)

\* C2: with packets handled one after the other and no CS record for the
\* name, an Interest whose key is not in the PIT is admitted and the PIT grows
\* by one record; an Interest whose key is in the PIT is dropped as a
\* duplicate, interests_duplicate grows by exactly 1 and the PIT is unchanged.
C2_SecondIsDuplicate ==
    \A c \in CPUs :
        ( /\ pc[c] = "done"
          /\ pkt[c].type = "Interest"
          /\ ~cs_lookup(pre[c].cs, pkt[c].hash) )
        => IF KeyOf(c) \in DOMAIN pre[c].pit
           THEN /\ why[c] = "duplicate"
                /\ ret[c] = XDP_DROP
                /\ Counter(metrics, INTERESTS_DUPLICATE)
                      = Counter(pre[c].metrics, INTERESTS_DUPLICATE) + 1
                /\ pit = pre[c].pit
           ELSE /\ why[c] \in {"forwarded", "no_route"}
                /\ KeyOf(c) \in DOMAIN pit
                /\ Cardinality(DOMAIN pit) = Cardinality(DOMAIN pre[c].pit) + 1

\* C3: after a Data packet for a name has been processed while the PIT held
\* records for that name, no PIT record with the name's (name_hash, name_len)
\* is left, whatever its nonce or face.
C3_DataClearsName ==
    \A c \in CPUs :
        ( /\ pc[c] = "done"
          /\ pkt[c].type = "Data"
          /\ ret[c] # XDP_ABORTED
          /\ \E k \in DOMAIN pre[c].pit :
                k.name_hash = pkt[c].hash /\ k.name_len = pkt[c].len )
        => ~\E k \in DOMAIN pit :
                k.name_hash = pkt[c].hash /\ k.name_len = pkt[c].len

\* C4: an Interest for a name whose Data is in the CS is satisfied from the
\* CS: cs_hits grows by exactly 1, no PIT record is inserted and fib_hits is
\* unchanged.
C4_CsHit ==
    \A c \in CPUs :
        ( /\ pc[c] = "done"
          /\ pkt[c].type = "Interest"
          /\ ret[c] # XDP_ABORTED
          /\ cs_lookup(pre[c].cs, pkt[c].hash) )
        => /\ why[c] = "cs_hit"
           /\ Counter(metrics, CS_HITS) = Counter(pre[c].metrics, CS_HITS) + 1
           /\ pit = pre[c].pit
           /\ Counter(metrics, FIB_HITS) = Counter(pre[c].metrics, FIB_HITS)

\* C10: an Interest that was inserted into the PIT and for which the FIB has
\* no route is dropped, and its PIT record is removed, so that the PIT is as
\* it was before the Interest.
C10_NoRouteUndoesPit ==
    \A c \in CPUs :
        (pc[c] = "done" /\ why[c] = "no_route")
        => (ret[c] = XDP_DROP /\ pit = pre[c].pit)

\* C11: a Data packet whose (name_hash, name_len) matches no PIT record is
\* dropped as unsolicited: the action is XDP_DROP, the CS is left as it was
\* and cs_inserts and pit_matches are unchanged.
C11_UnsolicitedDropped ==
    \A c \in CPUs :
        ( /\ pc[c] = "done"
          /\ pkt[c].type = "Data"
          /\ ret[c] # XDP_ABORTED
          /\ ~\E k \in DOMAIN pre[c].pit :
                k.name_hash = pkt[c].hash /\ k.name_len = pkt[c].len )
        => /\ why[c] = "unsolicited"
           /\ ret[c] = XDP_DROP
           /\ cs = pre[c].cs
           /\ pit = pre[c].pit
           /\ Counter(metrics, CS_INSERTS) = Counter(pre[c].metrics, CS_INSERTS)
           /\ Counter(metrics, PIT_MATCHES) = Counter(pre[c].metrics, PIT_MATCHES)

\* C12: a CS lookup returns a record only while now - created_at <= ttl_ms;
\* an Interest that finds an expired record goes on as a CS miss, cs_hits is
\* unchanged and the expired record is removed from the CS by that read.
C12_ExpiredIsMiss ==
    \A c \in CPUs :
        ( /\ pc[c] = "done"
          /\ pkt[c].type = "Interest"
          /\ ret[c] # XDP_ABORTED
          /\ cs_lookup(pre[c].cs, pkt[c].hash)
          /\ is_entry_expired(pre[c].cs[CsKey(pkt[c].hash, 0)], pre[c].now) )
        => /\ why[c] # "cs_hit"
           /\ Counter(metrics, CS_HITS) = Counter(pre[c].metrics, CS_HITS)
           /\ ~cs_lookup(cs, pkt[c].hash)

\* pit::is_pit_entry_expired, with the value of utils::get_timestamp as t; the
\* record of the main.rs build has arrival_time for timestamp and no
\* lifetime_ms, for which the lifetime lib.rs stores is taken
is_pit_entry_expired(entry, t) ==
    IF "lifetime_ms" \in DOMAIN entry
    THEN t > entry.timestamp + entry.lifetime_ms
    ELSE t > entry.arrival_time + DEFAULT_LIFETIME_MS

\* C32: an Interest whose (name, nonce) has a PIT record that was expired when
\* the Interest arrived, and for whose name the CS has nothing, is not dropped
\* as a duplicate; and a Data for whose name every PIT record was expired when
\* it arrived is treated as unsolicited, the expired records being removed.
C32_ExpiredRecordIsAbsent ==
    \A c \in CPUs :
        (pc[c] = "done" /\ ret[c] # XDP_ABORTED)
        => /\ ( /\ pkt[c].type = "Interest"
                /\ ~cs_lookup(pre[c].cs, pkt[c].hash)
                /\ KeyOf(c) \in DOMAIN pre[c].pit
                /\ is_pit_entry_expired(pre[c].pit[KeyOf(c)], pre[c].now) )
              => why[c] # "duplicate"
           /\ ( /\ pkt[c].type = "Data"
                /\ find_matching_interests(pre[c].pit, pkt[c].hash) # {}
                /\ \A k \in find_matching_interests(pre[c].pit, pkt[c].hash) :
                      is_pit_entry_expired(pre[c].pit[k], pre[c].now) )
              => why[c] = "unsolicited"

\* C34: the PIT record made for an admitted Interest names the face the
\* Interest arrived on and holds the Interest's own lifetime.
C34_RecordNamesIngressFace ==
    \A c \in CPUs :
        ( /\ pc[c] = "done"
          /\ pkt[c].type = "Interest"
          /\ why[c] \in {"forwarded", "no_route"}
          /\ KeyOf(c) \in DOMAIN pit )
        => /\ pit[KeyOf(c)].face_id = pkt[c].ifindex
           /\ "lifetime_ms" \in DOMAIN pit[KeyOf(c)]
           /\ pit[KeyOf(c)].lifetime_ms = pkt[c].lifetime_ms

\* the key the running program inserts into the CS for the packet in hand
CsKeyOf(c) == CsKey(pkt[c].hash, 0)

C27_IncrementsAreCounted ==
    [][ /\ \A k \in MetricKeys : Counter(metrics', k) >= Counter(metrics, k)
        /\ \A c \in CPUs :
              (reg[c] # NoReg /\ reg'[c] = NoReg)
                  => \E k \in MetricKeys : Counter(metrics', k) = Counter(metrics, k) + 1 ]_vars

\* ContentStore::hit_rate: the misses are not counted by the classifier, they
\* are formed as interests_received.saturating_sub(hits)
cs_misses(m) ==
    IF Counter(m, INTERESTS_RECEIVED) >= Counter(m, CS_HITS)
    THEN Counter(m, INTERESTS_RECEIVED) - Counter(m, CS_HITS)
    ELSE 0

\* C37: in every state cs_hits + cs_misses = interests_received -
\* interests_duplicate - interests_dropped_other: a received Interest that is
\* neither a duplicate nor dropped otherwise is one CS hit or one CS miss.
\* The classifier keeps no counter of other drops, so the identity is asked
\* for some number of them between 0 and the Interests received.
C37_HitsAndMissesAddUp ==
    \E interests_dropped_other \in 0..Counter(metrics, INTERESTS_RECEIVED) :
        Counter(metrics, CS_HITS) + cs_misses(metrics)
            = Counter(metrics, INTERESTS_RECEIVED)
              - Counter(metrics, INTERESTS_DUPLICATE)
              - interests_dropped_other

\* the event pump handles the Closed event of face f in this step
HandlesClosed(f) ==
    /\ pe.pc = "loop"
    /\ Head(pe.q) = f
    /\ events[f] # << >>
    /\ Head(events[f]) = "Closed"
    /\ events'[f] = Tail(events[f])

\* C38: the face ids on a transport's list are unique; handling the Closed
\* event of a face takes that face off the list and no other; every face on
\* the list that is not closed is the one found by its id; and a face of the
\* server's map that is not closed stays in the map when a peer connects.
C38_ClosedRemovesThatFaceOnly ==
    /\ [](\A i, j \in 1..Len(registry) :
             FaceId(registry[i]) = FaceId(registry[j]) => i = j)
    /\ [](\A g \in Range(registry) : ~closed[g] => find_face(FaceId(g)) = g)
    /\ [][ /\ \A f \in Faces :
                HandlesClosed(f) =>
                    \A g \in Faces \ {f} : InRegistry(g) => InRegistry(g)'
           /\ \A g \in server : ~closed[g] => g \in server' ]_vars

\* the frame is IPv6, UDP and to or from the NDN port
ForNdnPort(fr) ==
    /\ fr.eth_type = ETH_P_IPV6
    /\ fr.next_hdr = IPPROTO_UDP
    /\ (fr.dst_port = NDN_PORT \/ fr.src_port = NDN_PORT)

\* C39: a frame that is not IPv6, not UDP, or neither to nor from the NDN
\* port leaves the classifier at once with XDP_PASS and with the PIT, the CS,
\* the FIB and every counter as they were; and only a frame that is IPv6, UDP,
\* to or from the NDN port and an Interest or a Data is dropped, aborted or
\* followed by a change of a table.
C39_OtherFramesPassUntouched ==
    [][ \A c \in CPUs :
          /\ ( /\ pc[c] = "idle"
               /\ pc'[c] # "idle"
               /\ "eth_type" \in DOMAIN pkt'[c]
               /\ ~ForNdnPort(pkt'[c]) )
             => /\ pc'[c] = "done"
                /\ ret'[c] = XDP_PASS
                /\ pit' = pit /\ cs' = cs /\ fib' = fib /\ metrics' = metrics
          /\ ( /\ pc'[c] # pc[c]
               /\ pc'[c] # "idle"
               /\ "eth_type" \in DOMAIN pkt'[c]
               /\ \/ ret'[c] \in {XDP_DROP, XDP_ABORTED}
                  \/ pit' # pit \/ cs' # cs \/ fib' # fib )
             => /\ ForNdnPort(pkt'[c])
                /\ pkt'[c].tlv_type \in {TLV_INTEREST, TLV_DATA} ]_vars

\* C40: every offset of the frame read for the packet type, the name hash and
\* the nonce is inside the frame and inside the UDP payload that the length
\* field declares; and a length field below the size of the UDP header, or
\* one that reaches past the end of the frame, makes the parse fail.
C40_ReadsStayInsideFrame ==
    codec.op = "frame" =>
        /\ \A o \in codec.reads :
              /\ o < codec.frame.frame_len
              /\ o < ETH_HDR_SIZE + IPV6_HDR_SIZE + codec.frame.udp_length
        /\ ( \/ codec.frame.udp_length < UDP_HDR_SIZE
             \/ ETH_HDR_SIZE + IPV6_HDR_SIZE + codec.frame.udp_length
                    > codec.frame.frame_len )
           => codec.out = Err

\* C26: in every state of the forwarder the counter of PIT matches is at most
\* the counter of PIT inserts.
C26_MatchesAtMostInserts ==
    Counter(metrics, PIT_MATCHES) <= Counter(metrics, PIT_INSERTS)

\* C13: pit.insert with a key that already has a record is rejected and
\* leaves the existing record (ingress face, creation time, lifetime) as it
\* was.
C13_DuplicateInsertRejected ==
    ( /\ api.op = "pit_insert"
      /\ api.key \in DOMAIN api.pit )
    => /\ ~api.ok
       /\ pit = api.pit

\* C20: fib.remove(prefix) on a prefix that has no route returns success and
\* leaves the FIB as it was.
C20_RemoveMissingIsOk ==
    ( /\ api.op = "fib_remove_route"
      /\ api.key \notin DOMAIN api.fib )
    => /\ api.ok
       /\ fib = api.fib

Decoded == codec.op \in {"decoded", "re_encoded"}

\* C16: decode(encode(p)) = p for every Interest and every Data, in every
\* field that is modelled (all but the local creation instant): name, nonce,
\* lifetime_ms, hop_limit, can_be_prefix, must_be_fresh; name, content, ttl_ms.
C16_DecodeOfEncode ==
    (Decoded /\ codec.src = "packet")
    => /\ codec.q.st = "Ok"
       /\ codec.q.val = codec.p

\* C17: for every byte string b that decodes, encode(decode(b)) = b.
C17_EncodeOfDecode ==
    codec.op = "re_encoded" => codec.again = codec.bytes

\* C17 as amended: for every byte string b that is encode(p) of an Interest or
\* a Data p, b decodes and encode(decode(b)) = b.
C17_EncodeOfDecodeOfEncoding ==
    (Decoded /\ codec.src = "packet")
    => /\ codec.q.st = "Ok"
       /\ codec.op = "re_encoded" => codec.again = codec.bytes

C17_Witness ==
    /\ codec.op = "re_encoded"
    /\ codec.src = "packet"
    /\ codec.p.kind = "Data"
    /\ codec.p.content = LongContent
    /\ codec.again = codec.bytes
    /\ Len(codec.bytes) > 253

\* C18: on every input the decoders return a packet or an error value and do
\* not panic; empty input, an outer length beyond the bytes that remain, a
\* length marker 255, an outer type the decoder does not take and an outer
\* element without a Name give an error value.
C18_DecodersReturn ==
    Decoded
    => /\ codec.q.st \in {"Ok", "Err"}
       /\ LET b == codec.bytes
              types == IF codec.fn = "Interest::decode" THEN {TLV_INTEREST}
                       ELSE IF codec.fn = "Data::decode" THEN {TLV_DATA}
                       ELSE {TLV_INTEREST, TLV_DATA}
          IN  ( \/ Len(b) < 2
                \/ b[1] \notin types
                \/ b[2] = 255
                \/ (b[2] <= 252 /\ b[2] > Len(b) - 2)
                \/ (b[2] = 0) )
              => codec.q.st = "Err"

C18_Witness ==
    /\ codec.op = "decoded"
    /\ codec.fn = "NdnPacket::from_bytes"
    /\ codec.bytes = <<TLV_INTEREST, 24, TLV_NAME, 3, TLV_COMPONENT>>
    /\ codec.q.st = "Err"

\* C19: fragment_packet(p, n) yields ceil(|p| / n) fragments, as many as
\* calculate_fragment_count(|p|, n) says, each non-empty and of at most n
\* bytes, and assemble_fragments gives p back.
C19_FragmentsRebuild ==
    codec.op \in {"fragmented", "assembled"}
    => LET p == codec.packet
           n == codec.fragment_size
           fs == codec.fragments
       IN  /\ Len(fs) = (Len(p) + n - 1) \div n
           /\ codec.count.st = "Ok"
           /\ codec.count.val = Len(fs)
           /\ \A i \in 1..Len(fs) : Len(fs[i]) >= 1 /\ Len(fs[i]) <= n
           /\ codec.op = "assembled" => (codec.out.st = "Ok" /\ codec.out.val = p)

\* C22: the name hash is the 32-bit FNV-1a of the name's component bytes put
\* one after the other, and the classifier derives the same value from a
\* packet of the name as userspace computes for the name.
C22_SameHashOnBothSides ==
    codec.op = "hashed"
    => /\ codec.user = Fnv1a(Concat(codec.name))
       /\ codec.kernel = Some(codec.user)

\* C23: A.is_prefix_of(B) is true exactly when A is no longer than B and the
\* components of A are the first components of B.
C23_PrefixIffLeading ==
    codec.op = "is_prefix_of"
    => (codec.out <=> /\ Len(codec.a) <= Len(codec.b)
                      /\ \A i \in 1..Len(codec.a) : codec.a[i] = codec.b[i])

\* C24: a size below 253 is encoded as the one byte; a size up to 65535 as
\* 253 and its two bytes, high byte first; a larger size as 254 and its four
\* bytes, high byte first; decode_tlv_length of an encoding returns the size
\* and leaves what follows it; and a first byte 255 is an error.
C24_LengthForms ==
    codec.op = "length"
    => LET n == codec.size
           b == codec.bytes
           k == Len(b) - Len(codec.tail)
       IN  IF n < 0 THEN codec.out = Err
           ELSE /\ n < 253 => (k = 1 /\ b[1] = n)
                /\ (n >= 253 /\ n <= 65535)
                   => (k = 3 /\ b[1] = 253 /\ b[2] * 256 + b[3] = n)
                /\ n > 65535
                   => /\ k = 5
                      /\ b[1] = 254
                      /\ b[2] < 128
                      /\ ((b[2] * 256 + b[3]) * 256 + b[4]) * 256 + b[5] = n
                /\ codec.out.st = "Ok"
                /\ codec.out.val = n
                /\ codec.out.rest = codec.tail

C24_Witness ==
    /\ codec.op = "length"
    /\ codec.size = 65536
    /\ codec.bytes = <<254, 0, 1, 0, 0, 7>>
    /\ codec.out = [st |-> "Ok", val |-> 65536, rest |-> <<7>>]

\* C36: every Name the codec produces, through from_string, through the
\* decoding of a Name element or through push, has at most 16 components of
\* at most 255 bytes each (input beyond either limit yields an error, no Name)
C36_NamesStayWithinLimits ==
    (codec.op = "name" /\ codec.out.st = "Ok") =>
        /\ Len(codec.out.val) <= MAX_NAME_COMPONENTS
        /\ \A i \in 1..Len(codec.out.val) :
               Len(codec.out.val[i]) <= MAX_NAME_COMPONENT_LENGTH

(***************************************************************************)
(* Properties of the face and the transport                                *)
(***************************************************************************)
\* the Data substreams the face has dispatched for the name of call k
Dispatched(k) ==
    { s \in Streams : /\ stream[s].pc \in {"emit_locked", "fin"}
                      /\ stream[s].kind = "Data"
                      /\ stream[s].face = call[k].face
                      /\ Key(stream[s].name) = Key(call[k].name) }

C33_LateDataIsOnlyAnEvent ==
    [][ \A s \in Streams :
          /\ ( /\ stream[s].pc = "dispatch"
               /\ stream[s].kind = "Data"
               /\ stream'[s].pc # "dispatch"
               /\ Waiting(s) = 0 )
             => /\ stream'[s].pc = "emit_locked"
                /\ chan' = chan
                /\ cpc' = cpc
                /\ result' = result
                /\ \A f \in Faces : DOMAIN pending'[f] \subseteq DOMAIN pending[f]
          /\ ( /\ stream[s].pc = "emit_locked"
               /\ stream[s].to = 0
               /\ stream'[s].pc # "emit_locked" )
             => /\ stream'[s].pc = "fin"
                /\ events'[stream[s].face] = Append(events[stream[s].face], "Data")
                /\ cpc' = cpc
                /\ pending' = pending ]_vars

\* a call timed out and returned, and a Data for its name that came later is
\* on the event channel
C33_Witness ==
    \E s \in Streams, k \in Calls :
        /\ stream[s].pc = "fin"
        /\ stream[s].kind = "Data"
        /\ stream[s].to = 0
        /\ cpc[k] = "done"
        /\ result[k].st = "Timeout"
        /\ call[k].face = stream[s].face
        /\ Key(call[k].name) = Key(stream[s].name)
        /\ Key(stream[s].name) \notin DOMAIN pending[stream[s].face]
        /\ events[stream[s].face] = <<"Data">>

\* C6: when a Data arrives on a face, every call for its name that is
\* outstanding on the face at that time is handed that Data.
C6_AllFulfilled ==
    [][ \A s \in Streams :
          (stream[s].pc = "dispatch" /\ stream'[s].pc = "emit_locked")
          => \A k \in Calls :
                ( /\ cpc[k] = "wait"
                  /\ call[k].face = stream[s].face
                  /\ Key(call[k].name) = Key(stream[s].name)
                  /\ chan[k].st \in {"empty", "closed"} )
                => chan'[k] = DataMsg(s) ]_vars

\* C7: a call whose Interest was sent and for whose name no Data arrived
\* completes with Timeout, not before its deadline, with its waiter gone from
\* the pending map; and interests_timed_out counts exactly the calls that
\* completed with Timeout.
C7_TimeoutOnExpiry ==
    /\ \A k \in Calls :
          ( /\ cpc[k] = "done"
            /\ result[k].st \notin {"FaceClosed", "SendError"}
            /\ Dispatched(k) = {} )
          => /\ result[k].st = "Timeout"
             /\ clock >= call[k].deadline
             /\ \A key \in DOMAIN pending[call[k].face] : pending[call[k].face][key] # k
    /\ fm.interests_timed_out
          = Cardinality({ k \in Calls : cpc[k] \in {"cleanup", "done"} /\ result[k].st = "Timeout" })

\* C8: once transport.close() has returned, every face of the transport is
\* closed, and every call that was awaiting Data on one of them when the face
\* was closed has completed, if it has completed, with NetworkError.
C8_CloseNotifiesAll ==
    tpc = "done"
    => /\ \A f \in tsnap : closed[f]
       /\ \A k \in Calls :
             (at_close[k] /\ cpc[k] = "done") => result[k].st = "NetworkError"

(***************************************************************************)
(* Properties of the FIB                                                   *)
(***************************************************************************)
\* the route of the longest prefix of the name that has a route in the table
LongestPrefixRoute(table, name) ==
    LET ks == { k \in 0..Len(name) : RouteKey(NamePrefix(name, k)) \in DOMAIN table }
    IN  IF ks = {} THEN None
        ELSE LET best == CHOOSE k \in ks : \A m \in ks : m <= k
             IN  table[RouteKey(NamePrefix(name, best))].face_id

\* C9: a FIB lookup of a name answers with the route stored for the longest
\* prefix of the name that is in the FIB, and with no route if there is none.
C9_LongestPrefixMatch ==
    lk.kind # "none" => lk.answer = LongestPrefixRoute(lk.table, lk.name)

====
